---- MODULE Spec2Model ----
(***************************************************************************)
(* A model of fobserver, a minimal HTTP/1.x server library:                *)
(*   src/src/http.rs    wire types, the request parser, response to_string *)
(*   src/src/router.rs  the exact-match route table                        *)
(*   src/src/args.rs    the shared argument store                          *)
(*   src/src/lib.rs     read_request, write_response, Server::start        *)
(*                                                                         *)
(* Text and bytes are sequences of one-character strings.  Long byte       *)
(* strings (socket data, the read buffer, response bodies) are held in     *)
(* run-length form, a sequence of [c, n] runs, and expanded where the code *)
(* looks at the characters.  All data is ASCII, on which                   *)
(* String::from_utf8_lossy changes nothing.                                *)
(***************************************************************************)
EXTENDS Integers, Sequences, FiniteSets, TLC

VARIABLES
    listening,  \* Server::start is inside its accept loop (FALSE once it returned)
    conn,       \* per connection: the client's side, the socket, the thread's locals
    router,     \* Router.routes, behind Server.router: Arc<RwLock<Router>>
    readers,    \* the connections whose thread holds a read guard on the router lock
    arg,        \* what the application passes to the library function it calls
    ret         \* what that call returned

vars == <<listening, conn, router, readers, arg, ret>>

-----------------------------------------------------------------------------
(* Option<T> *)
None == [some |-> FALSE]
Some(v) == [some |-> TRUE, val |-> v]

(* Result<T, anyhow::Error>: the error is its message *)
Ok(v) == [ok |-> TRUE, val |-> v]
Err(msg) == [ok |-> FALSE, err |-> msg]

Min(a, b) == IF a < b THEN a ELSE b

-----------------------------------------------------------------------------
(* Run-length form of a byte string *)

RECURSIVE RLen(_)
RLen(r) == IF r = <<>> THEN 0 ELSE Head(r).n + RLen(Tail(r))

\* The concatenation of two run-length forms, merging the runs that meet when
\* they are of the same character.
RCat(a, b) ==
    IF a = <<>> THEN b
    ELSE IF b = <<>> THEN a
    ELSE IF a[Len(a)].c = b[1].c
         THEN SubSeq(a, 1, Len(a) - 1)
                \o <<[c |-> b[1].c, n |-> a[Len(a)].n + b[1].n]>>
                \o Tail(b)
         ELSE a \o b

\* The first k bytes of r (all of r when it is shorter).
RECURSIVE RTake(_, _)
RTake(r, k) ==
    IF k = 0 \/ r = <<>> THEN <<>>
    ELSE IF Head(r).n >= k THEN <<[c |-> Head(r).c, n |-> k]>>
    ELSE <<Head(r)>> \o RTake(Tail(r), k - Head(r).n)

\* r without its first k bytes.
RECURSIVE RDrop(_, _)
RDrop(r, k) ==
    IF k = 0 \/ r = <<>> THEN r
    ELSE IF Head(r).n > k THEN <<[c |-> Head(r).c, n |-> Head(r).n - k]>> \o Tail(r)
    ELSE RDrop(Tail(r), k - Head(r).n)

\* bytes[start .. start + len) of r, 0-based as in the code's slices.
RSlice(r, start, len) == RTake(RDrop(r, start), len)

\* The run-length form of a plain sequence, by halves.
RECURSIVE Enc(_)
Enc(s) ==
    IF s = <<>> THEN <<>>
    ELSE IF Len(s) = 1 THEN <<[c |-> s[1], n |-> 1]>>
    ELSE LET h == Len(s) \div 2
         IN  RCat(Enc(SubSeq(s, 1, h)), Enc(SubSeq(s, h + 1, Len(s))))

\* The plain sequence of a run-length form.
RECURSIVE Expand(_)
Expand(r) ==
    IF r = <<>> THEN <<>>
    ELSE [i \in 1..Head(r).n |-> Head(r).c] \o Expand(Tail(r))

Rep(c, n) == IF n = 0 THEN <<>> ELSE <<[c |-> c, n |-> n]>>

-----------------------------------------------------------------------------
(* Characters *)

NUL == "NUL"
Lower == <<"a", "b", "c", "d", "e", "f", "g", "h", "i", "j", "k", "l", "m", "n", "o", "p", "q", "r", "s", "t", "u", "v", "w", "x", "y", "z">>
Upper == <<"A", "B", "C", "D", "E", "F", "G", "H", "I", "J", "K", "L", "M", "N", "O", "P", "Q", "R", "S", "T", "U", "V", "W", "X", "Y", "Z">>
\* char::is_whitespace on the characters used here
Whitespace == {" ", "\t", "\n", "\r", "\f"}

to_ascii_uppercase(s) ==
    [i \in DOMAIN s |->
        IF \E k \in DOMAIN Lower : Lower[k] = s[i]
        THEN Upper[CHOOSE k \in DOMAIN Lower : Lower[k] = s[i]]
        ELSE s[i]]

\* str::trim
trim(s) ==
    LET keep == {i \in DOMAIN s : s[i] \notin Whitespace}
    IN  IF keep = {} THEN <<>>
        ELSE LET lo == CHOOSE i \in keep : \A j \in keep : i <= j
                 hi == CHOOSE i \in keep : \A j \in keep : j <= i
             IN  SubSeq(s, lo, hi)

\* str::split_whitespace: the maximal runs of non-whitespace characters
RECURSIVE split_whitespace(_)
split_whitespace(s) ==
    LET keep == {i \in DOMAIN s : s[i] \notin Whitespace}
    IN  IF keep = {} THEN <<>>
        ELSE LET lo == CHOOSE i \in keep : \A j \in keep : i <= j
                 ws == {i \in lo..Len(s) : s[i] \in Whitespace}
                 hi == IF ws = {} THEN Len(s)
                       ELSE (CHOOSE i \in ws : \A j \in ws : i <= j) - 1
             IN  <<SubSeq(s, lo, hi)>> \o split_whitespace(SubSeq(s, hi + 1, Len(s)))

\* str::lines: split at "\n"; a line's final "\n", and a "\r" right before it,
\* are not part of the line; text after the last "\n" is a last line when it is
\* not empty.
RECURSIVE lines(_)
lines(s) ==
    IF s = <<>> THEN <<>>
    ELSE LET nl == {i \in DOMAIN s : s[i] = "\n"}
         IN  IF nl = {} THEN <<s>>
             ELSE LET p == CHOOSE i \in nl : \A j \in nl : i <= j
                      e == IF p > 1 /\ s[p - 1] = "\r" THEN p - 2 ELSE p - 1
                  IN  <<SubSeq(s, 1, e)>> \o lines(SubSeq(s, p + 1, Len(s)))

\* [&str]::join
RECURSIVE join(_, _)
join(ss, sep) ==
    IF ss = <<>> THEN <<>>
    ELSE IF Len(ss) = 1 THEN ss[1]
    ELSE ss[1] \o sep \o join(Tail(ss), sep)

-----------------------------------------------------------------------------
(* Wire types, src/src/http.rs *)

Method == {"GET", "HEAD", "POST", "PUT", "DELETE", "CONNECT", "OPTIONS", "TRACE", "PATCH"}
Version == {"V10", "V11", "V20", "V30"}
StatusCode == {"CODE100", "CODE102", "CODE103", "CODE200", "CODE202", "CODE204",
               "CODE205", "CODE206", "CODE300", "CODE301", "CODE302", "CODE303",
               "CODE304", "CODE307", "CODE308", "CODE400", "CODE401", "CODE403",
               "CODE404", "CODE405", "CODE406", "CODE408", "CODE409", "CODE500",
               "CODE501", "CODE502", "CODE503", "CODE504", "CODE505", "CODE511"}

Method_to_string(m) ==
    [
        GET |-> <<"G", "E", "T">>,
        HEAD |-> <<"H", "E", "A", "D">>,
        POST |-> <<"P", "O", "S", "T">>,
        PUT |-> <<"P", "U", "T">>,
        DELETE |-> <<"D", "E", "L", "E", "T", "E">>,
        CONNECT |-> <<"C", "O", "N", "N", "E", "C", "T">>,
        OPTIONS |-> <<"O", "P", "T", "I", "O", "N", "S">>,
        TRACE |-> <<"T", "R", "A", "C", "E">>,
        PATCH |-> <<"P", "A", "T", "C", "H">>
    ][m]

\* Mutant of Method_from_str: an unknown token is taken for GET.
Method_from_str_Default(s) ==
    LET u == to_ascii_uppercase(s)
    IN  IF \E m \in Method : Method_to_string(m) = u
        THEN Ok(CHOOSE m \in Method : Method_to_string(m) = u)
        ELSE Ok("GET")

Method_from_str(s) ==
    LET u == to_ascii_uppercase(s)
    IN  IF \E m \in Method : Method_to_string(m) = u
        THEN Ok(CHOOSE m \in Method : Method_to_string(m) = u)
        ELSE Err("No matching HTTP method")

Version_to_string(v) ==
    [
        V10 |-> <<"H", "T", "T", "P", "/", "1", ".", "0">>,
        V11 |-> <<"H", "T", "T", "P", "/", "1", ".", "1">>,
        V20 |-> <<"H", "T", "T", "P", "/", "2", ".", "0">>,
        V30 |-> <<"H", "T", "T", "P", "/", "3", ".", "0">>
    ][v]

Version_from_str(s) ==
    LET u == to_ascii_uppercase(s)
    IN  IF \E v \in Version : Version_to_string(v) = u
        THEN Ok(CHOOSE v \in Version : Version_to_string(v) = u)
        ELSE Err("No matching HTTP version")

StatusCode_to_string(c) ==
    [
        CODE100 |-> <<"1", "0", "0", " ", "C", "o", "n", "t", "i", "n", "u", "e">>,
        CODE102 |-> <<"1", "0", "2", " ", "P", "r", "o", "c", "e", "s", "s", "i", "n", "g">>,
        CODE103 |-> <<"1", "0", "3", " ", "E", "a", "r", "l", "y", " ", "H", "i", "n", "t", "s">>,
        CODE200 |-> <<"2", "0", "0", " ", "O", "K">>,
        CODE202 |-> <<"2", "0", "2", " ", "A", "c", "c", "e", "p", "t", "e", "d">>,
        CODE204 |-> <<"2", "0", "4", " ", "N", "o", " ", "C", "o", "n", "t", "e", "n", "t">>,
        CODE205 |-> <<"2", "0", "5", " ", "R", "e", "s", "e", "t", " ", "C", "o", "n", "t", "e", "n", "t">>,
        CODE206 |-> <<"2", "0", "6", " ", "P", "a", "r", "t", "i", "a", "l", " ", "C", "o", "n", "t", "e", "n", "t">>,
        CODE300 |-> <<"3", "0", "0", " ", "M", "u", "l", "t", "i", "p", "l", "e", " ", "C", "h", "o", "i", "c", "e", "s">>,
        CODE301 |-> <<"3", "0", "1", " ", "M", "o", "v", "e", "d", " ", "P", "e", "r", "m", "a", "n", "e", "n", "t", "l", "y">>,
        CODE302 |-> <<"3", "0", "2", " ", "F", "o", "u", "n", "d">>,
        CODE303 |-> <<"3", "0", "3", " ", "S", "e", "e", " ", "O", "t", "h", "e", "r">>,
        CODE304 |-> <<"3", "0", "4", " ", "N", "o", "t", " ", "M", "o", "d", "i", "f", "i", "e", "d">>,
        CODE307 |-> <<"3", "0", "7", " ", "T", "e", "m", "p", "o", "r", "a", "r", "y", " ", "R", "e", "d", "i", "r", "e", "c", "t">>,
        CODE308 |-> <<"3", "0", "8", " ", "P", "e", "r", "m", "a", "n", "e", "n", "t", " ", "R", "e", "d", "i", "r", "e", "c", "t">>,
        CODE400 |-> <<"4", "0", "0", " ", "B", "a", "d", " ", "R", "e", "q", "u", "e", "s", "t">>,
        CODE401 |-> <<"4", "0", "1", " ", "U", "n", "a", "u", "t", "h", "o", "r", "i", "z", "e", "d">>,
        CODE403 |-> <<"4", "0", "3", " ", "F", "o", "r", "b", "i", "d", "d", "e", "n">>,
        CODE404 |-> <<"4", "0", "4", " ", "N", "o", "t", " ", "F", "o", "u", "n", "d">>,
        CODE405 |-> <<"4", "0", "5", " ", "M", "e", "t", "h", "o", "d", " ", "N", "o", "t", " ", "A", "l", "l", "o", "w", "e", "d">>,
        CODE406 |-> <<"4", "0", "6", " ", "N", "o", "t", " ", "A", "c", "c", "e", "p", "t", "a", "b", "l", "e">>,
        CODE408 |-> <<"4", "0", "8", " ", "R", "e", "q", "u", "e", "s", "t", " ", "T", "i", "m", "e", "o", "u", "t">>,
        CODE409 |-> <<"4", "0", "9", " ", "C", "o", "n", "f", "l", "i", "c", "t">>,
        CODE500 |-> <<"5", "0", "0", " ", "I", "n", "t", "e", "r", "n", "a", "l", " ", "S", "e", "r", "v", "e", "r", " ", "E", "r", "r", "o", "r">>,
        CODE501 |-> <<"5", "0", "1", " ", "N", "o", "t", " ", "I", "m", "p", "l", "e", "m", "e", "n", "t", "e", "d">>,
        CODE502 |-> <<"5", "0", "2", " ", "B", "a", "d", " ", "G", "a", "t", "e", "w", "a", "y">>,
        CODE503 |-> <<"5", "0", "3", " ", "S", "e", "r", "v", "i", "c", "e", " ", "U", "n", "a", "b", "a", "i", "l", "a", "b", "l", "e">>,
        CODE504 |-> <<"5", "0", "4", " ", "G", "a", "t", "e", "w", "a", "y", " ", "T", "i", "m", "e", "o", "u", "t">>,
        CODE505 |-> <<"5", "0", "5", " ", "H", "T", "T", "P", " ", "V", "e", "r", "s", "i", "o", "n", " ", "N", "o", "t", " ", "S", "u", "p", "p", "o", "r", "t", "e", "d">>,
        CODE511 |-> <<"5", "1", "1", " ", "N", "e", "t", "w", "o", "r", "k", " ", "A", "u", "t", "h", "e", "n", "t", "i", "c", "a", "t", "i", "o", "n", " ", "R", "e", "q", "u", "i", "r", "e", "d">>
    ][c]

-----------------------------------------------------------------------------
(* HashMap<K, V> as a function *)

EmptyMap == [k \in {} |-> <<>>]
MapInsert(m, k, v) == [x \in DOMAIN m \cup {k} |-> IF x = k THEN v ELSE m[x]]
MapGet(m, k) == IF k \in DOMAIN m THEN Some(m[k]) ELSE None

-----------------------------------------------------------------------------
(* The request parser, src/src/http.rs *)

\* Mutant of parse_headers: rsplitn(2, ':'), the line is split at its last ':'.
RECURSIVE parse_headers_LastColon(_, _, _)
parse_headers_LastColon(ls, i, headers) ==
    IF i > Len(ls) THEN Ok([headers |-> headers, next |-> i])
    ELSE IF ls[i] = <<>> THEN Ok([headers |-> headers, next |-> i + 1])
    ELSE LET line == ls[i]
             colons == {k \in DOMAIN line : line[k] = ":"}
         IN  IF colons = {} THEN Err("Malformed header")
             ELSE LET p == CHOOSE k \in colons : \A j \in colons : j <= k
                      header_name == trim(SubSeq(line, 1, p - 1))
                      header_value == trim(SubSeq(line, p + 1, Len(line)))
                  IN  parse_headers_LastColon(ls, i + 1,
                                              MapInsert(headers, header_name, header_value))

\* The header loop of from_str over ls[i..]: each line up to the first empty
\* one is split at its first ':' and inserted; the result carries the index of
\* the first line the loop did not consume.
RECURSIVE parse_headers(_, _, _)
parse_headers(ls, i, headers) ==
    IF i > Len(ls) THEN Ok([headers |-> headers, next |-> i])
    ELSE IF ls[i] = <<>> THEN Ok([headers |-> headers, next |-> i + 1])
    ELSE LET line == ls[i]
             colons == {k \in DOMAIN line : line[k] = ":"}
         IN  IF colons = {} THEN Err("Malformed header")
             ELSE LET p == CHOOSE k \in colons : \A j \in colons : k <= j
                      header_name == trim(SubSeq(line, 1, p - 1))
                      header_value == trim(SubSeq(line, p + 1, Len(line)))
                  IN  parse_headers(ls, i + 1, MapInsert(headers, header_name, header_value))

\* Mutant of parse_request_line: one error for every missing token.
parse_request_line_OneError(parts) ==
    IF Len(parts) < 1 THEN Err("Invalid request")
    ELSE IF ~Method_from_str(parts[1]).ok THEN Method_from_str(parts[1])
    ELSE IF Len(parts) < 3 THEN Err("Invalid request")
    ELSE IF ~Version_from_str(parts[3]).ok THEN Version_from_str(parts[3])
    ELSE Ok([method  |-> Method_from_str(parts[1]).val,
             path    |-> parts[2],
             version |-> Version_from_str(parts[3]).val])

\* from_str on the tokens of the request line: parts.next() three times, the
\* method and the version parsed as they are taken; tokens after the third are
\* never looked at.
parse_request_line(parts) ==
    IF Len(parts) < 1 THEN Err("Missing method")
    ELSE IF ~Method_from_str(parts[1]).ok THEN Method_from_str(parts[1])
    ELSE IF Len(parts) < 2 THEN Err("Missing path")
    ELSE IF Len(parts) < 3 THEN Err("Missing HTTP version")
    ELSE IF ~Version_from_str(parts[3]).ok THEN Version_from_str(parts[3])
    ELSE Ok([method  |-> Method_from_str(parts[1]).val,
             path    |-> parts[2],
             version |-> Version_from_str(parts[3]).val])

HTTPRequest_from_str(s) ==
    LET ls == lines(s)
    IN  IF ls = <<>> THEN Err("Invalid request")
        ELSE
        LET first == parse_request_line(split_whitespace(ls[1]))
        IN  IF ~first.ok THEN first
            ELSE
            LET hs == parse_headers(ls, 2, EmptyMap)
            IN  IF ~hs.ok THEN hs
                ELSE
                LET rest == SubSeq(ls, hs.val.next, Len(ls))
                    body == IF Len(rest) > 0 THEN Some(join(rest, <<"\n">>)) ELSE None
                IN  Ok([method  |-> first.val.method,
                        path    |-> first.val.path,
                        version |-> first.val.version,
                        headers |-> hs.val.headers,
                        body    |-> body])

-----------------------------------------------------------------------------
(* Header and cookie lookup, src/src/http.rs *)

\* str::split on a one-character pattern: the pieces between its occurrences.
RECURSIVE split(_, _)
split(s, sep) ==
    LET at == {i \in DOMAIN s : s[i] = sep}
    IN  IF at = {} THEN <<s>>
        ELSE LET p == CHOOSE i \in at : \A j \in at : i <= j
             IN  <<SubSeq(s, 1, p - 1)>> \o split(SubSeq(s, p + 1, Len(s)), sep)

\* The call did not return: Option::unwrap on None panicked.
Panicked == [ok |-> FALSE, panicked |-> TRUE]

HeaderCookie == <<"C", "o", "o", "k", "i", "e">>

get_header(request, header) == MapGet(request.headers, header)

\* The loop of get_cookies over the pieces of the Cookie header from the i-th
\* on.
RECURSIVE insert_cookies(_, _, _)
insert_cookies(pieces, i, cookies) ==
    IF i > Len(pieces) THEN Ok(cookies)
    ELSE LET parts == split(pieces[i], "=")
         IN  IF Len(parts) < 2 THEN Panicked
             ELSE insert_cookies(pieces, i + 1, MapInsert(cookies, parts[1], parts[2]))

\* Mutant of get_cookies: a request without a Cookie header has no cookies.
get_cookies_Lenient(request) ==
    LET data == get_header(request, HeaderCookie)
    IN  IF ~data.some THEN Ok(EmptyMap)
        ELSE insert_cookies(split(data.val, ";"), 1, EmptyMap)

get_cookies(request) ==
    LET data == get_header(request, HeaderCookie)
    IN  IF ~data.some THEN Err("No Cookie header found")
        ELSE insert_cookies(split(data.val, ";"), 1, EmptyMap)

\* (The error's text has the requested name in place of {}.)
get_cookie(request, cookie) ==
    LET cookies == get_cookies(request)
    IN  IF ~cookies.ok THEN cookies
        ELSE IF cookie \in DOMAIN cookies.val THEN Ok(cookies.val[cookie])
        ELSE Err("No cookie with this name ({}) exists")

-----------------------------------------------------------------------------
(* HTTPResponse, src/src/http.rs *)

\* impl ToString for HTTPResponse, with the headers taken in the order `order`
\* (a sequence of header names): HashMap::iter yields them in an order the
\* program does not control.
HTTPResponse_to_string(response, order) ==
    Version_to_string(response.version) \o <<" ">>
        \o StatusCode_to_string(response.status_code) \o <<"\n">>
        \o join([i \in DOMAIN order |->
                    order[i] \o <<":", " ">> \o response.headers[order[i]]],
                <<"\n">>)

\* The orders in which HashMap::iter can yield the keys of m.
Orders(m) ==
    {o \in [1..Cardinality(DOMAIN m) -> DOMAIN m] :
        \A i, j \in DOMAIN o : i # j => o[i] # o[j]}

-----------------------------------------------------------------------------
(* The route table, src/src/router.rs *)

Router_new == EmptyMap

\* Mutant of add_route: entry(key).or_insert(handler), the first registration
\* wins.
add_route_KeepFirst(routes, method, path, version, handler) ==
    IF <<method, path, version>> \in DOMAIN routes THEN routes
    ELSE MapInsert(routes, <<method, path, version>>, handler)

add_route(routes, method, path, version, handler) ==
    MapInsert(routes, <<method, path, version>>, handler)
route(routes, request) ==
    MapGet(routes, <<request.method, request.path, request.version>>)

-----------------------------------------------------------------------------
(* The response framer, src/src/lib.rs *)

BUFFER_LEN == 4096   \* let mut buffer = [0; 4096]
FULL_READ == 4096    \* if len < 4096 { break }
CHUNK_LEN == 4096    \* min(4096, bytes.len() - start)

HexDigits == <<"0", "1", "2", "3", "4", "5", "6", "7", "8", "9", "A", "B", "C", "D", "E", "F">>
CRLF == <<"\r", "\n">>
TransferEncoding == <<"T", "r", "a", "n", "s", "f", "e", "r", "-", "E", "n", "c", "o", "d", "i", "n", "g">>
Chunked == <<"c", "h", "u", "n", "k", "e", "d">>

\* Mutant of format_X: format!("{:x}", n), lowercase digits.
RECURSIVE format_x(_)
format_x(n) ==
    LET digits == <<"0", "1", "2", "3", "4", "5", "6", "7", "8", "9", "a", "b", "c", "d", "e", "f">>
    IN  IF n < 16 THEN <<digits[n + 1]>>
        ELSE format_x(n \div 16) \o <<digits[(n % 16) + 1]>>

\* format!("{:X}", n)
RECURSIVE format_X(_)
format_X(n) ==
    IF n < 16 THEN <<HexDigits[n + 1]>>
    ELSE format_X(n \div 16) \o <<HexDigits[(n % 16) + 1]>>

\* The while loop of write_response from `start` on: three write_all calls per
\* chunk.
RECURSIVE write_chunks(_, _)
write_chunks(bytes, start) ==
    IF start < RLen(bytes)
    THEN LET len == Min(CHUNK_LEN, RLen(bytes) - start)
         IN  << Enc(format_X(len) \o CRLF),
                RSlice(bytes, start, len),
                Enc(CRLF) >>
             \o write_chunks(bytes, start + len)
    ELSE <<>>

\* Mutant of with_chunked: entry("Transfer-Encoding").or_insert("chunked"), which
\* keeps a value the handler supplied.
with_chunked_IfAbsent(response) ==
    IF TransferEncoding \in DOMAIN response.headers THEN response
    ELSE [response EXCEPT !.headers = MapInsert(@, TransferEncoding, Chunked)]

\* The response as write_response serializes it: the handler's response with
\* the Transfer-Encoding header inserted.
with_chunked(response) ==
    [response EXCEPT !.headers = MapInsert(@, TransferEncoding, Chunked)]

\* Mutant of write_response: the zero-length chunk is written only after a body.
write_response_BodyOnly(response, order) ==
    LET resp == with_chunked(response)
        body == resp.body
    IN  <<Enc(HTTPResponse_to_string(resp, order) \o <<"\n", "\n">>)>>
        \o (IF body.some
            THEN write_chunks(body.val, 0) \o <<Enc(<<"0">> \o CRLF \o CRLF)>>
            ELSE <<>>)

\* The byte strings write_response passes to write_all, in order, when every
\* write succeeds; `order` is the order HashMap::iter yields the headers in.
write_response(response, order) ==
    LET resp == with_chunked(response)
        body == resp.body
    IN  <<Enc(HTTPResponse_to_string(resp, order) \o <<"\n", "\n">>)>>
        \o (IF body.some THEN write_chunks(body.val, 0) ELSE <<>>)
        \o <<Enc(<<"0">> \o CRLF \o CRLF)>>

-----------------------------------------------------------------------------
(* Handlers registered by the application (HandlerFunction, src/src/lib.rs)  *)
(* and the requests clients send                                             *)

MaxConns == 2   \* connections that arrive
MaxFull == 1    \* the longest client payloads fill the read buffer MaxFull times

Conns == 1..MaxConns

PathA == <<"/", "a">>
PathB == <<"/", "b">>
PathFail == <<"/", "f", "a", "i", "l">>

RespA == [version |-> "V11", status_code |-> "CODE200",
          headers |-> EmptyMap,
          body |-> Some(Enc(<<"a", "l", "p", "h", "a">>))]
RespB == [version |-> "V10", status_code |-> "CODE404",
          headers |-> MapInsert(EmptyMap, TransferEncoding, <<"g", "z", "i", "p">>),
          body |-> Some(Enc(<<"b", "e", "t", "a", "\r", "\n", "0", "\r", "\n">>))]
RespNoBody == [version |-> "V11", status_code |-> "CODE204",
               headers |-> MapInsert(EmptyMap, <<"X", "-", "I", "d">>, <<"n">>),
               body |-> None]

\* What a handler does with a request: a response or a failure.
Returned(response) == [kind |-> "Ok", val |-> response]
Failed(msg) == [kind |-> "Err", err |-> msg]

call(handler, key) ==
    CASE handler = "hA" -> Returned(RespA)
      [] handler = "hB" -> Returned(RespB)
      [] handler = "hNoBody" -> Returned(RespNoBody)
      [] handler = "hFail" -> Failed("handler failed")

\* The routes the application registers before Server::new.
Routes ==
    LET r0 == Router_new
        r1 == add_route(r0, "GET", PathA, "V11", "hFail")
        r2 == add_route(r1, "GET", PathA, "V11", "hA")
        r3 == add_route(r2, "GET", PathB, "V11", "hB")
        r4 == add_route(r3, "POST", PathA, "V11", "hNoBody")
    IN  add_route(r4, "GET", PathFail, "V11", "hFail")

ReqA == <<"G", "E", "T", " ", "/", "a", " ", "H", "T", "T", "P", "/", "1", ".", "1", "\r", "\n", "\r", "\n">>
ReqB1 == <<"g", "e", "t", " ", "/", "b", " ", "h", "t">>
ReqB2 == <<"t", "p", "/", "1", ".", "1", "\r", "\n", "H", "o", "s", "t", ":", " ", "x", "\r", "\n", "\r", "\n">>
ReqNoRoute == <<"G", "E", "T", " ", "/", "z", "z", " ", "H", "T", "T", "P", "/", "1", ".", "1", "\r", "\n", "\r", "\n">>
ReqFail == <<"G", "E", "T", " ", "/", "f", "a", "i", "l", " ", "H", "T", "T", "P", "/", "1", ".", "1", "\r", "\n", "\r", "\n">>
ReqPost == <<"P", "O", "S", "T", " ", "/", "a", " ", "H", "T", "T", "P", "/", "1", ".", "1", "\r", "\n", "\r", "\n">>

\* ReqPost followed by a body of "x" that makes n bytes in all.
Padded(n) == RCat(Enc(ReqPost), Rep("x", n - Len(ReqPost)))

\* A payload is the sequence of segments its client sends, each a byte string.
Payloads ==
    { <<Enc(ReqA)>>, <<Enc(ReqB1), Enc(ReqB2)>>, <<Enc(ReqNoRoute)>>,
      <<Enc(ReqFail)>>, <<Padded(FULL_READ + 7)>> }
    \cup { <<Padded(j * FULL_READ)>> : j \in 1..MaxFull }

-----------------------------------------------------------------------------
(* Server::start, read_request and the connection threads, src/src/lib.rs    *)

\* A connection before its client connects.
IdleConn ==
    [ phase        |-> "Idle",
      toSend       |-> <<>>,     \* segments the client has yet to send
      sent         |-> <<>>,     \* bytes the client has sent so far
      inbuf        |-> <<>>,     \* bytes sent and not yet read by the server
      clientClosed |-> FALSE,    \* the client has shut its sending side
      buffer       |-> <<>>,     \* read_request: buffer
      dim          |-> 0,        \* read_request: dim
      reads        |-> <<>>,     \* lengths returned by stream.read so far
      got          |-> <<>>,     \* the bytes those reads returned, in order
      text         |-> <<>>,     \* the string read_request parses
      parsed       |-> 0,        \* times the request parser ran
      key          |-> <<>>,     \* the parsed request's (method, path, version)
      handler      |-> "none",   \* the function route() returned
      called       |-> <<>>,     \* handlers invoked, with the request key
      response     |-> None,     \* the handler's response
      writes       |-> 0,        \* times write_response was entered
      out          |-> <<>>,     \* byte strings written to the stream
      result       |-> "none" ]  \* what the thread's closure returned

\* The thread ends: its locals and the stream are dropped, closing the socket.
\* (What the client did and what was read are forgotten with it; the response
\* written, if any, is kept beside the bytes the client received.)
Finish(cn, result) ==
    [cn EXCEPT !.phase = "Closed", !.result = result, !.buffer = <<>>,
               !.text = <<>>, !.inbuf = <<>>, !.toSend = <<>>,
               !.handler = "none", !.clientClosed = FALSE,
               !.sent = <<>>, !.reads = <<>>, !.got = <<>>, !.dim = 0]

\* Mutant of Fail: the server answers a failed request with a 500 response.
Fail_Synthesized(cn, msg) ==
    [Finish(cn, msg) EXCEPT
        !.out = <<Enc(Version_to_string("V11") \o <<" ">>
                      \o StatusCode_to_string("CODE500") \o <<"\n", "\n">>)>>]

\* The closure returns Err(msg) through `?` or `return Err(..)`.
Fail(cn, msg) == Finish(cn, msg)

\* The thread panics and unwinds.  (The reads that led to it stay on record.)
Panic(cn) == [Finish(cn, "panic") EXCEPT !.reads = cn.reads, !.got = cn.got]

Init ==
    /\ listening = TRUE
    /\ conn = [c \in Conns |-> IdleConn]
    /\ router = Routes
    /\ readers = {}
    /\ arg = <<>>
    /\ ret = <<>>

\* A client connects: the connection waits in the listener's backlog.
\* Connections are numbered in order of arrival.
ClientConnect(c) ==
    /\ conn[c].phase = "Idle"
    /\ \A d \in Conns : d < c => conn[d].phase # "Idle"
    /\ conn' = [conn EXCEPT ![c].phase = "Pending"]
    /\ UNCHANGED <<listening, router, readers, arg, ret>>

\* The client sends the first segment of a payload it chooses, or the next
\* segment of the one it chose.  Sending is modelled while the server thread is
\* in read_request: bytes sent before the thread's first read are pending at
\* that read just the same, and bytes sent after read_request returned are
\* never read.
ClientSend(c) ==
    /\ conn[c].phase = "Reading"
    /\ ~conn[c].clientClosed
    /\ \E p \in (IF conn[c].sent = <<>> THEN Payloads ELSE {conn[c].toSend}) :
          /\ p # <<>>
          /\ conn' = [conn EXCEPT ![c] = [@ EXCEPT !.inbuf = RCat(@, Head(p)),
                                                   !.sent = RCat(@, Head(p)),
                                                   !.toSend = Tail(p)]]
    /\ UNCHANGED <<listening, router, readers, arg, ret>>

\* The client shuts its sending side, having sent all it chose to send, while
\* the server thread waits in stream.read: that read returns 0.  (Shutting
\* earlier has the same effect: the bytes pending are read first.)
ClientClose(c) ==
    /\ conn[c].phase = "Reading"
    /\ conn[c].toSend = <<>>
    /\ conn[c].inbuf = <<>>
    /\ ~conn[c].clientClosed
    /\ conn' = [conn EXCEPT ![c].clientClosed = TRUE]
    /\ UNCHANGED <<listening, router, readers, arg, ret>>

\* Mutant of Accept: the loop serves a connection itself before it accepts the
\* next, so a connection is accepted only when all earlier ones are closed.
Accept_Serial(c) ==
    /\ listening
    /\ conn[c].phase = "Pending"
    /\ \A d \in Conns : d < c => conn[d].phase = "Closed"
    /\ conn' = [conn EXCEPT ![c].phase = "Accepted"]
    /\ UNCHANGED <<listening, router, readers, arg, ret>>

\* listener.incoming() yields Ok(stream): the loop clones the router and args
\* handles and spawns the connection's thread.
Accept(c) ==
    /\ listening
    /\ conn[c].phase = "Pending"
    /\ \A d \in Conns : d < c => conn[d].phase # "Pending"
    /\ conn' = [conn EXCEPT ![c].phase = "Accepted"]
    /\ UNCHANGED <<listening, router, readers, arg, ret>>

\* The io::Error an accept fails with, as Display shows it.
AcceptErrors == {"Too many open files (os error 24)"}

\* anyhow!("Error: {}", err)
StartError(err) == Err(<<"Error: ", err>>)

\* Mutant of AcceptError: start shuts down the connection threads still
\* running before it returns.
AcceptError_Exit ==
    /\ listening
    /\ listening' = FALSE
    /\ \E err \in AcceptErrors : ret' = StartError(err)
    /\ conn' = [c \in Conns |->
                   IF conn[c].phase \in {"Accepted", "Reading", "Routing",
                                         "Handling", "Writing"}
                   THEN Finish(conn[c], "aborted")
                   ELSE conn[c]]
    /\ readers' = {}
    /\ UNCHANGED <<router, arg>>

\* listener.incoming() yields Err: start returns the error; ret is what start
\* returned.
AcceptError ==
    /\ listening
    /\ listening' = FALSE
    /\ \E err \in AcceptErrors : ret' = StartError(err)
    /\ UNCHANGED <<conn, router, readers, arg>>

\* The spawned thread starts running read_request.
ThreadStart(c) ==
    /\ conn[c].phase = "Accepted"
    /\ conn' = [conn EXCEPT ![c] = [@ EXCEPT !.phase = "Reading",
                                             !.buffer = Rep(NUL, BUFFER_LEN),
                                             !.dim = 0]]
    /\ UNCHANGED <<listening, router, readers, arg, ret>>

\* What read_request does after its loop: String::from_utf8_lossy(&buffer)[..dim]
\* panics when dim is beyond the end of the string; otherwise the thread goes on
\* to parse that prefix.
AfterLoop(cn) ==
    IF cn.dim > RLen(cn.buffer)
    THEN Panic(cn)
    ELSE [cn EXCEPT !.phase = "Routing", !.text = RTake(cn.buffer, cn.dim),
                    !.buffer = <<>>]

\* One stream.read(&mut buffer) of read_request's loop: it fills the buffer
\* from its start with the bytes pending, at most the buffer's length.
ReadInto(cn) ==
    LET len == Min(BUFFER_LEN, RLen(cn.inbuf))
    IN  [cn EXCEPT !.buffer = RCat(RTake(cn.inbuf, len), RDrop(cn.buffer, len)),
                   !.inbuf = RDrop(cn.inbuf, len),
                   !.dim = cn.dim + len,
                   !.reads = Append(@, len),
                   !.got = RCat(@, RTake(cn.inbuf, len))]

\* Mutant of Read: a panic in a connection thread takes the process down, the
\* accept loop and the other connections with it.
Read_Abort(c) ==
    /\ conn[c].phase = "Reading"
    /\ conn[c].inbuf # <<>> \/ conn[c].clientClosed
    /\ LET cn == ReadInto(conn[c])
           len == cn.reads[Len(cn.reads)]
           after == IF len < FULL_READ THEN AfterLoop(cn) ELSE cn
       IN  IF after.result = "panic"
           THEN /\ conn' = [d \in Conns |->
                               IF d = c THEN after
                               ELSE IF conn[d].phase \in {"Idle", "Closed"} THEN conn[d]
                               ELSE Finish(conn[d], "aborted")]
                /\ listening' = FALSE
                /\ readers' = {}
           ELSE /\ conn' = [conn EXCEPT ![c] = after]
                /\ UNCHANGED <<listening, readers>>
    /\ UNCHANGED <<router, arg, ret>>

\* Mutant of Read: a read deadline, after which a read with nothing pending
\* returns 0 bytes.
Read_Timeout(c) ==
    /\ conn[c].phase = "Reading"
    /\ LET cn == ReadInto(conn[c])
           len == cn.reads[Len(cn.reads)]
       IN  conn' = [conn EXCEPT ![c] = IF len < FULL_READ THEN AfterLoop(cn) ELSE cn]
    /\ UNCHANGED <<listening, router, readers, arg, ret>>

\* One iteration of read_request's loop.  The read blocks until bytes are
\* pending or the client has closed.
Read(c) ==
    /\ conn[c].phase = "Reading"
    /\ conn[c].inbuf # <<>> \/ conn[c].clientClosed
    /\ LET cn == ReadInto(conn[c])
           len == cn.reads[Len(cn.reads)]
       IN  conn' = [conn EXCEPT ![c] = IF len < FULL_READ THEN AfterLoop(cn) ELSE cn]
    /\ UNCHANGED <<listening, router, readers, arg, ret>>

\* stream.read fails (the peer reset the connection): read_request returns the
\* error.
ReadError(c) ==
    /\ conn[c].phase = "Reading"
    /\ conn' = [conn EXCEPT ![c] = Fail(@, "io error: read")]
    /\ UNCHANGED <<listening, router, readers, arg, ret>>

\* read_request parses the text; then the closure takes the router's read lock
\* and looks the request up.
Route(c) ==
    /\ conn[c].phase = "Routing"
    /\ \E request \in {HTTPRequest_from_str(Expand(conn[c].text))} :
          LET cn == [conn[c] EXCEPT !.parsed = @ + 1, !.text = <<>>, !.dim = 0,
                                    !.sent = <<>>, !.reads = <<>>, !.got = <<>>,
                                    !.clientClosed = FALSE]
          IN  IF ~request.ok
              THEN /\ conn' = [conn EXCEPT ![c] = Fail(cn, request.err)]
                   /\ UNCHANGED readers
              ELSE LET function == route(router, request.val)
                       key == <<request.val.method, request.val.path,
                                request.val.version>>
                   IN  IF function.some
                       THEN /\ conn' = [conn EXCEPT ![c] =
                                           [cn EXCEPT !.phase = "Handling",
                                                      !.key = key,
                                                      !.handler = function.val]]
                            /\ readers' = readers \cup {c}
                       ELSE /\ conn' = [conn EXCEPT ![c] =
                                           Fail([cn EXCEPT !.key = key],
                                                "Error: No associated functions to request")]
                            /\ UNCHANGED readers
    /\ UNCHANGED <<listening, router, arg, ret>>

\* Mutant of Handle: the handler takes the router's write lock and registers a
\* route.
Handle_Registers(c) ==
    /\ conn[c].phase = "Handling"
    /\ LET r == call(conn[c].handler, conn[c].key)
           cn == [conn[c] EXCEPT !.called = Append(@, <<conn[c].handler, conn[c].key>>)]
       IN  conn' = [conn EXCEPT ![c] =
                       CASE r.kind = "Ok" -> [cn EXCEPT !.phase = "Writing",
                                                        !.response = Some(r.val)]
                         [] r.kind = "Err" -> Fail(cn, r.err)]
    /\ readers' = readers \ {c}
    /\ router' = add_route(router, "GET", PathB, "V11", "hA")
    /\ UNCHANGED <<listening, arg, ret>>

\* Mutant of Handle: the read guard outlives the match and is still held while
\* the response is written.
Handle_HoldsGuard(c) ==
    /\ conn[c].phase = "Handling"
    /\ LET r == call(conn[c].handler, conn[c].key)
           cn == [conn[c] EXCEPT !.called = Append(@, <<conn[c].handler, conn[c].key>>)]
       IN  conn' = [conn EXCEPT ![c] =
                       CASE r.kind = "Ok" -> [cn EXCEPT !.phase = "Writing",
                                                        !.response = Some(r.val)]
                         [] r.kind = "Err" -> Fail(cn, r.err)]
    /\ UNCHANGED <<listening, router, readers, arg, ret>>

\* function(request, args)?: the handler runs under the read guard, which is
\* dropped when the match ends or the closure returns.
Handle(c) ==
    /\ conn[c].phase = "Handling"
    /\ LET r == call(conn[c].handler, conn[c].key)
           cn == [conn[c] EXCEPT !.called = Append(@, <<conn[c].handler, conn[c].key>>)]
       IN  conn' = [conn EXCEPT ![c] =
                       CASE r.kind = "Ok" -> [cn EXCEPT !.phase = "Writing",
                                                        !.response = Some(r.val)]
                         [] r.kind = "Err" -> Fail(cn, r.err)]
    /\ readers' = readers \ {c}
    /\ UNCHANGED <<listening, router, arg, ret>>

\* Mutant of Write: the response goes to the stream of another connection.
Write_CrossTalk(c) ==
    /\ conn[c].phase = "Writing"
    /\ \E order \in Orders(with_chunked(conn[c].response.val).headers) :
       \E ws \in {write_response(conn[c].response.val, order)} :
       \E d \in Conns \ {c} :
          conn' = [conn EXCEPT ![c] = Finish([conn[c] EXCEPT !.writes = conn[c].writes + 1],
                                            "Ok"),
                               ![d].out = conn[d].out \o ws]
    /\ UNCHANGED <<listening, router, readers, arg, ret>>

\* Mutant of Write: a keep-alive server, which reads the next request from the
\* same connection after writing a response.
Write_KeepAlive(c) ==
    /\ conn[c].phase = "Writing"
    /\ conn' = [conn EXCEPT ![c] = [@ EXCEPT !.phase = "Reading",
                                             !.writes = @ + 1,
                                             !.buffer = Rep(NUL, BUFFER_LEN)]]
    /\ UNCHANGED <<listening, router, readers, arg, ret>>

\* Server::write_response(&stream, response): the first k write_all calls
\* succeed; with k short of all of them the next one fails and its error is
\* returned.  Either way the closure returns and the stream is dropped.
Write(c) ==
    /\ conn[c].phase = "Writing"
    /\ \E order \in Orders(with_chunked(conn[c].response.val).headers) :
       \E ws \in {write_response(conn[c].response.val, order)} :
       \E k \in 0..Len(ws) :
          conn' = [conn EXCEPT ![c] =
                      Finish([conn[c] EXCEPT !.writes = conn[c].writes + 1,
                                             !.out = SubSeq(ws, 1, k)],
                             IF k = Len(ws) THEN "Ok" ELSE "io error: write")]
    /\ UNCHANGED <<listening, router, readers, arg, ret>>

Next ==
    \/ AcceptError
    \/ \E c \in Conns :
          \/ ClientConnect(c)
          \/ ClientSend(c)
          \/ ClientClose(c)
          \/ Accept(c)
          \/ ThreadStart(c)
          \/ Read(c)
          \/ ReadError(c)
          \/ Route(c)
          \/ Handle(c)
          \/ Write(c)

Spec == Init /\ [][Next]_vars

\* The scheduler runs every spawned thread, and the handlers registered here
\* return: a thread that can start does start, and a handler that has been
\* entered returns.
SpecFair ==
    Spec /\ \A c \in Conns : WF_vars(ThreadStart(c)) /\ WF_vars(Handle(c))

-----------------------------------------------------------------------------
(* write_response on its own, src/src/lib.rs: a thread whose handler has     *)
(* returned a response, for a range of bodies and header maps                *)

MaxChunks == 2   \* bodies of up to MaxChunks full chunks and a remainder

BodyHead == <<"0", "\r", "\n", "\r", "\n", "a", "b">>
BodyTail == <<"y", "z", "\r", "\n">>

\* A body of n bytes that contains the bytes of a zero-length chunk.
BodyOf(n) ==
    IF n >= Len(BodyHead) + Len(BodyTail)
    THEN RCat(RCat(Enc(BodyHead), Rep("x", n - Len(BodyHead) - Len(BodyTail))),
              Enc(BodyTail))
    ELSE RTake(Enc(BodyHead \o BodyTail), n)

BodyLens ==
    {0, 1, 5, 10, 43, CHUNK_LEN - 1, CHUNK_LEN + 1, 10000}
        \cup { j * CHUNK_LEN : j \in 1..MaxChunks }
        \cup { j * CHUNK_LEN + 2 : j \in 1..MaxChunks }

FramerBodies == {None} \cup { Some(BodyOf(n)) : n \in BodyLens }

HeaderXId == <<"X", "-", "I", "d">>
HeaderContentType == <<"C", "o", "n", "t", "e", "n", "t", "-", "T", "y", "p", "e">>
HeaderLowerTE == <<"t", "r", "a", "n", "s", "f", "e", "r", "-", "e", "n", "c", "o", "d", "i", "n", "g">>

FramerHeaders ==
    { EmptyMap,
      MapInsert(MapInsert(EmptyMap, TransferEncoding, <<"g", "z", "i", "p">>), HeaderXId, <<"7">>),
      MapInsert(MapInsert(EmptyMap, HeaderXId, <<"7">>), HeaderContentType, <<"t", "e", "x", "t", "/", "p", "l", "a", "i", "n">>),
      MapInsert(EmptyMap, HeaderLowerTE, <<"g", "z", "i", "p">>) }

FramerResponses ==
    { [version |-> "V11", status_code |-> "CODE200", headers |-> h, body |-> b] :
         h \in FramerHeaders, b \in FramerBodies }

\* Connection 1 has been read, routed and handled; its handler returned one of
\* FramerResponses and write_response is about to run.
InitFramer ==
    /\ listening = TRUE
    /\ router = Routes
    /\ readers = {}
    /\ arg = <<>>
    /\ ret = <<>>
    /\ \E r \in FramerResponses :
          conn = [c \in Conns |->
                     IF c = 1
                     THEN [IdleConn EXCEPT !.phase = "Writing",
                                           !.parsed = 1,
                                           !.key = <<"GET", PathA, "V11">>,
                                           !.called = << <<"hA", <<"GET", PathA, "V11">>>> >>,
                                           !.response = Some(r)]
                     ELSE IdleConn]

NextFramer == \E c \in Conns : Write(c)

SpecFramer == InitFramer /\ [][NextFramer]_vars

-----------------------------------------------------------------------------
(* The application builds its Router, src/src/router.rs: add_route calls on  *)
(* a new Router, and lookups on what they built                              *)

MaxRoutes == 3   \* add_route calls made

\* Triples that differ from (GET, "/a", V11) in the method, in the version, in
\* the case of the path, or by a longer or a shorter path.
RouterTriples ==
    { <<"GET", <<"/", "a">>, "V11">>,
      <<"POST", <<"/", "a">>, "V11">>,
      <<"GET", <<"/", "a">>, "V10">>,
      <<"GET", <<"/", "A">>, "V11">>,
      <<"GET", <<"/", "a", "/", "b">>, "V11">>,
      <<"GET", <<"/">>, "V11">> }

RouterHandlers == {"hA", "hB"}

\* A request with the given triple.
RequestOf(triple) ==
    [method |-> triple[1], path |-> triple[2], version |-> triple[3],
     headers |-> EmptyMap, body |-> None]

InitRouter ==
    /\ listening = FALSE
    /\ conn = [c \in Conns |-> IdleConn]
    /\ router = Router_new
    /\ readers = {}
    /\ arg = <<>>
    /\ ret = <<>>

\* router.add_route(method, path, version, handler); arg keeps the calls made.
AddRoute(triple, handler) ==
    /\ Len(arg) < MaxRoutes
    /\ router' = add_route(router, triple[1], triple[2], triple[3], handler)
    /\ arg' = Append(arg, [triple |-> triple, handler |-> handler])
    /\ ret' = <<>>
    /\ UNCHANGED <<listening, conn, readers>>

\* router.route(&request)
Lookup(triple) ==
    /\ ret' = [triple |-> triple, found |-> route(router, RequestOf(triple))]
    /\ UNCHANGED <<listening, conn, router, readers, arg>>

NextRouter ==
    \/ \E triple \in RouterTriples, handler \in RouterHandlers : AddRoute(triple, handler)
    \/ \E triple \in RouterTriples : Lookup(triple)

SpecRouter == InitRouter /\ [][NextRouter]_vars

-----------------------------------------------------------------------------
(* The request parser on its own, src/src/http.rs: str::parse::<HTTPRequest> *)
(* on request texts                                                          *)

\* Request lines from which a token is missing, or whose method or version is
\* not a known one.
ShortLines ==
    { <<>>, <<" ", " ", "\t">>, <<"G", "E", "T">>, <<"g", "e", "t">>, <<"B", "R", "E", "W">>, <<"G", "E", "T", " ", "/", "a">>, <<"B", "R", "E", "W", " ", "/", "a">>, <<"G", "E", "T", " ", "/", "a", " ", "H", "T", "T", "P", "/", "9">>, <<"B", "R", "E", "W", " ", "/", "a", " ", "H", "T", "T", "P", "/", "1", ".", "1">> }

\* Request lines with a known method and version as first and third token.
FullLines ==
    { <<"G", "E", "T", " ", "/", "a", " ", "H", "T", "T", "P", "/", "1", ".", "1">>, <<"p", "o", "s", "t", " ", " ", "/", "a", "\t", "H", "t", "t", "p", "/", "1", ".", "0">>, <<"G", "E", "T", " ", "/", "a", " ", "H", "T", "T", "P", "/", "1", ".", "1", " ", "e", "x", "t", "r", "a">>,
      <<"G", "E", "T", " ", "/", "a", " ", "H", "T", "T", "P", "/", "2", ".", "0", " ", "H", "T", "T", "P", "/", "1", ".", "1", " ", "x">> }

HeaderBlocks ==
    { <<>>,
      <<"H", "o", "s", "t", ":", " ", "x", "\r", "\n">>,
      <<"H", "o", "s", "t", ":", " ", "x", ":", "8", "0", "\r", "\n">>,
      <<"A", ":", "\r", "\n">>,
      <<" ", "A", " ", ":", " ", "1", " ", "\r", "\n", "B", ":", " ", "2", "\r", "\n", "A", ":", " ", "3", "\r", "\n">>,
      <<"N", "o", "C", "o", "l", "o", "n", "\r", "\n">>,
      <<"A", ":", " ", "1", "\r", "\n", "N", "o", "C", "o", "l", "o", "n", "\r", "\n", "B", ":", " ", "2", "\r", "\n">>,
      <<"A", ":", " ", "1", "\n", "b", ":", "c", ":", "d", "\n">> }

\* What follows the header lines: nothing, or the blank line and a body.
Tails ==
    { <<>>, CRLF, <<"\n">>,
      CRLF \o <<"b", "o", "d", "y">>,
      CRLF \o <<"a", "b", "\r", "\n", "c", "d">>,
      CRLF \o <<"a", "b", "c", "\n">>,
      CRLF \o CRLF,
      CRLF \o <<"k", ":", " ", "v", "\r", "\n", "\r", "\n", "z">> }

ParserInputs ==
    { l \o CRLF \o h \o tl : l \in FullLines, h \in HeaderBlocks, tl \in Tails }
        \cup { l \o tl : l \in ShortLines,
                         tl \in {<<>>, CRLF, CRLF \o <<"H", "o", "s", "t", ":", " ", "x", "\r", "\n">> \o CRLF} }

InitParser ==
    /\ listening = FALSE
    /\ conn = [c \in Conns |-> IdleConn]
    /\ router = Router_new
    /\ readers = {}
    /\ arg \in ParserInputs
    /\ ret = <<>>

\* arg.parse::<HTTPRequest>()
Parse ==
    /\ ret = <<>>
    /\ \E request \in {HTTPRequest_from_str(arg)} : ret' = request
    /\ UNCHANGED <<listening, conn, router, readers, arg>>

NextParser == Parse

SpecParser == InitParser /\ [][NextParser]_vars

-----------------------------------------------------------------------------
(* A handler looks up cookies, src/src/http.rs: get_cookies and get_cookie   *)
(* on requests with and without a Cookie header                              *)

CookieValues ==
    { <<"a", "=", "1", ";", " ", "b", "=", "2">>, <<"a", "=", "1", ";", "b", "=", "2">>, <<"a", "=", "1">>, <<"a", "=", "1", ";", " ", "a", "=", "2">>,
      <<"a", "=", "b", "=", "c">>, <<"a">>, <<>>, <<"a", "=", "1", ";">>, <<" ", "a", " ", "=", " ", "1", " ">>, <<"a", "=", "1", ";", " ", "b", "=", "2", ";", " ", "c", "=", "3">> }

CookieNames == { <<"a">>, <<"b">>, <<" ", "b">>, <<"z">>, <<>> }

CookieHeaders ==
    { EmptyMap,
      MapInsert(EmptyMap, <<"c", "o", "o", "k", "i", "e">>, <<"a", "=", "1">>),
      MapInsert(EmptyMap, <<"H", "o", "s", "t">>, <<"a", "=", "1">>) }
        \cup { MapInsert(MapInsert(EmptyMap, <<"H", "o", "s", "t">>, <<"x">>), HeaderCookie, v) :
                  v \in CookieValues }

InitCookies ==
    /\ listening = FALSE
    /\ conn = [c \in Conns |-> IdleConn]
    /\ router = Router_new
    /\ readers = {}
    /\ \E h \in CookieHeaders, name \in CookieNames :
          arg = [request |-> [method |-> "GET", path |-> PathA, version |-> "V11",
                              headers |-> h, body |-> None],
                 cookie |-> name]
    /\ ret = <<>>

\* HTTPRequest::get_cookies(&request)
GetCookies ==
    /\ ret = <<>>
    /\ ret' = [fn |-> "get_cookies", val |-> get_cookies(arg.request)]
    /\ UNCHANGED <<listening, conn, router, readers, arg>>

\* HTTPRequest::get_cookie(&request, cookie)
GetCookie ==
    /\ ret = <<>>
    /\ ret' = [fn |-> "get_cookie", val |-> get_cookie(arg.request, arg.cookie)]
    /\ UNCHANGED <<listening, conn, router, readers, arg>>

NextCookies == GetCookies \/ GetCookie

SpecCookies == InitCookies /\ [][NextCookies]_vars

-----------------------------------------------------------------------------
(* The wire types on their own, src/src/http.rs: tokens parsed and shown     *)
(* again, variants shown and parsed again, status codes shown                *)

\* s with the letters at the positions in `at` in lower case.
lowered(s, at) ==
    [i \in DOMAIN s |->
        IF i \in at /\ \E k \in DOMAIN Upper : Upper[k] = s[i]
        THEN Lower[CHOOSE k \in DOMAIN Upper : Upper[k] = s[i]]
        ELSE s[i]]

\* A token in upper case, in lower case, and in two mixes of both.
CaseMixes(s) ==
    { s, lowered(s, DOMAIN s),
      lowered(s, {i \in DOMAIN s : i % 2 = 1}),
      lowered(s, {i \in DOMAIN s : i % 2 = 0}) }

UnknownTokens ==
    { <<>>, <<"G", "E", "T", "S">>, <<"G", "E">>, <<"G", " ", "E", "T">>, <<" ", "G", "E", "T">>, <<"B", "R", "E", "W">>, <<"H", "T", "T", "P", "/", "1", ".", "2">>,
      <<"H", "T", "T", "P", "/", "1">>, <<"H", "T", "T", "P", "1", ".", "1">>, <<"h", "t", "t", "p", "/", "1", ".", "1", " ">>, <<"1", ".", "1">>, <<"H", "T", "T", "P", "/", "0", ".", "9">> }

WireTokens ==
    UNION { CaseMixes(Method_to_string(m)) : m \in Method }
        \cup UNION { CaseMixes(Version_to_string(v)) : v \in Version }
        \cup UnknownTokens

\* Calls on a token, and calls on a variant.
TokenCalls ==
    { [fn |-> "Method::from_str", x |-> s] : s \in WireTokens }
        \cup { [fn |-> "Version::from_str", x |-> s] : s \in WireTokens }

VariantCalls ==
    { [fn |-> "Method::to_string", x |-> m] : m \in Method }
        \cup { [fn |-> "Version::to_string", x |-> v] : v \in Version }
        \cup { [fn |-> "StatusCode::to_string", x |-> c] : c \in StatusCode }

InitWire ==
    /\ listening = FALSE
    /\ conn = [c \in Conns |-> IdleConn]
    /\ router = Router_new
    /\ readers = {}
    /\ arg \in TokenCalls \/ arg \in VariantCalls
    /\ ret = <<>>

\* arg.x.parse::<Method>(), and to_string() of the result
ParseMethod ==
    /\ ret = <<>> /\ arg.fn = "Method::from_str"
    /\ \E r \in {Method_from_str(arg.x)} :
          ret' = [parsed |-> r,
                  shown |-> IF r.ok THEN Some(Method_to_string(r.val)) ELSE None]
    /\ UNCHANGED <<listening, conn, router, readers, arg>>

\* arg.x.parse::<Version>(), and to_string() of the result
ParseVersion ==
    /\ ret = <<>> /\ arg.fn = "Version::from_str"
    /\ \E r \in {Version_from_str(arg.x)} :
          ret' = [parsed |-> r,
                  shown |-> IF r.ok THEN Some(Version_to_string(r.val)) ELSE None]
    /\ UNCHANGED <<listening, conn, router, readers, arg>>

\* arg.x.to_string() of a Method, and parse() of the result
ShowMethod ==
    /\ ret = <<>> /\ arg.fn = "Method::to_string"
    /\ ret' = [shown |-> Some(Method_to_string(arg.x)),
               parsed |-> Method_from_str(Method_to_string(arg.x))]
    /\ UNCHANGED <<listening, conn, router, readers, arg>>

\* arg.x.to_string() of a Version, and parse() of the result
ShowVersion ==
    /\ ret = <<>> /\ arg.fn = "Version::to_string"
    /\ ret' = [shown |-> Some(Version_to_string(arg.x)),
               parsed |-> Version_from_str(Version_to_string(arg.x))]
    /\ UNCHANGED <<listening, conn, router, readers, arg>>

\* arg.x.to_string() of a StatusCode
ShowStatusCode ==
    /\ ret = <<>> /\ arg.fn = "StatusCode::to_string"
    /\ ret' = [shown |-> Some(StatusCode_to_string(arg.x)), parsed |-> None]
    /\ UNCHANGED <<listening, conn, router, readers, arg>>

NextWire == ParseMethod \/ ParseVersion \/ ShowMethod \/ ShowVersion \/ ShowStatusCode

SpecWire == InitWire /\ [][NextWire]_vars

-----------------------------------------------------------------------------
(* The counter server of the Server documentation, src/src/lib.rs: requests *)
(* to its one route, each in a connection thread that runs the handler      *)
(* statement by statement and then writes the response.  Here arg is what   *)
(* main passes to Server::new as args, with the values its entries point    *)
(* to, and ret holds the handler calls in progress, one frame a thread.     *)

MaxRequests == 3
Requests == 1..MaxRequests

\* std::sync::RwLock<T>: the threads holding a read guard, the thread holding
\* the write guard, and the value.
RwLock_new(data) == [readers |-> {}, writer |-> {}, data |-> data]

\* Args::new
Args_new == [args |-> EmptyMap]

\* Args::add_arg
add_arg(self, name, a) == [self EXCEPT !.args = MapInsert(@, name, a)]

\* Args::arg
Args_arg(self, name) == MapGet(self.args, name)

\* Counter::new and Counter::add of the example
Counter_new == [value |-> 0]
Counter_add(self) == [self EXCEPT !.value = @ + 1]

\* format!("{}", n) of a usize: its decimal digits, no leading zero.
RECURSIVE format_usize(_)
format_usize(n) ==
    LET d == <<"0", "1", "2", "3", "4", "5", "6", "7", "8", "9">>
    IN  IF n < 10 THEN <<d[n + 1]>>
        ELSE format_usize(n \div 10) \o <<d[(n % 10) + 1]>>

CounterValue == <<"C", "o", "u", "n", "t", "e", "r", " ", "v", "a", "l", "u", "e", ":", " ">>

PathRoot == <<"/">>

\* main of the example: the Arc it puts under "counter", the Args and the
\* Router it builds.
CounterArc == "Arc(Counter)"
CounterArgs == add_arg(Args_new, "counter", CounterArc)
CounterRoutes == add_route(Router_new, "GET", PathRoot, "V11", "handler")

\* The frame of a handler call that has not run its first statement.
Entry == [pc |-> "args.read", binding |-> None, counter |-> None]

InitCounter ==
    /\ listening = TRUE
    /\ router = CounterRoutes
    /\ arg = [args |-> RwLock_new(CounterArgs),
              heap |-> [a \in {CounterArc} |-> RwLock_new(Counter_new)]]
    /\ \E n \in Requests :
          /\ conn = [c \in Requests |->
                        IF c <= n
                        THEN [IdleConn EXCEPT !.phase = "Handling",
                                              !.parsed = 1,
                                              !.key = <<"GET", PathRoot, "V11">>,
                                              !.handler = route(CounterRoutes,
                                                  [method |-> "GET", path |-> PathRoot,
                                                   version |-> "V11"]).val]
                        ELSE IdleConn]
          /\ readers = 1..n
          /\ ret = [c \in 1..n |-> Entry]

\* let args = args.read().unwrap();
ArgsRead(c) ==
    /\ conn[c].phase = "Handling" /\ ret[c].pc = "args.read"
    /\ arg.args.writer = {}
    /\ arg' = [arg EXCEPT !.args.readers = @ \cup {c}]
    /\ ret' = [ret EXCEPT ![c].pc = "args.arg"]
    /\ UNCHANGED <<listening, conn, router, readers>>

\* let binding = args.arg("counter").unwrap();  unwrap of None panics, and
\* the unwinding thread drops its guards.
ArgsArg(c) ==
    /\ conn[c].phase = "Handling" /\ ret[c].pc = "args.arg"
    /\ LET binding == Args_arg(arg.args.data, "counter")
       IN  IF binding.some
           THEN /\ ret' = [ret EXCEPT ![c].pc = "binding.write",
                                      ![c].binding = binding]
                /\ UNCHANGED <<conn, readers, arg>>
           ELSE /\ ret' = [ret EXCEPT ![c].pc = "panicked"]
                /\ conn' = [conn EXCEPT ![c] = Panic(conn[c])]
                /\ readers' = readers \ {c}
                /\ arg' = [arg EXCEPT !.args.readers = @ \ {c}]
    /\ UNCHANGED <<listening, router>>

\* Mutant of BindingWrite: the guard is taken as a read guard is, whoever else
\* holds one.
BindingWrite_Shared(c) ==
    /\ conn[c].phase = "Handling" /\ ret[c].pc = "binding.write"
    /\ arg' = [arg EXCEPT !.heap[ret[c].binding.val].readers = @ \cup {c}]
    /\ ret' = [ret EXCEPT ![c].pc = "counter.add"]
    /\ UNCHANGED <<listening, conn, router, readers>>

\* let mut l = binding.write().unwrap();  the thread waits until no other
\* thread holds a guard of the entry.  (No thread panics under the guard, so
\* the lock is never poisoned; the entry is a Counter, so the downcast_mut
\* that follows is Some.)
BindingWrite(c) ==
    /\ conn[c].phase = "Handling" /\ ret[c].pc = "binding.write"
    /\ arg.heap[ret[c].binding.val].writer = {}
    /\ arg.heap[ret[c].binding.val].readers = {}
    /\ arg' = [arg EXCEPT !.heap[ret[c].binding.val].writer = {c}]
    /\ ret' = [ret EXCEPT ![c].pc = "counter.add"]
    /\ UNCHANGED <<listening, conn, router, readers>>

\* counter.add(): self.value += 1 reads the value ...
AddLoad(c) ==
    /\ conn[c].phase = "Handling" /\ ret[c].pc = "counter.add"
    /\ ret' = [ret EXCEPT ![c].pc = "counter.add (store)",
                          ![c].counter = Some(arg.heap[ret[c].binding.val].data)]
    /\ UNCHANGED <<listening, conn, router, readers, arg>>

\* ... and writes it back, one more.
AddStore(c) ==
    /\ conn[c].phase = "Handling" /\ ret[c].pc = "counter.add (store)"
    /\ arg' = [arg EXCEPT !.heap[ret[c].binding.val].data =
                              Counter_add(ret[c].counter.val)]
    /\ ret' = [ret EXCEPT ![c].pc = "response", ![c].counter = None]
    /\ UNCHANGED <<listening, conn, router, readers>>

\* The response is built from counter.value and returned: the handler's
\* guards are dropped, l first, then the thread's guard of the router.
Respond(c) ==
    /\ conn[c].phase = "Handling" /\ ret[c].pc = "response"
    /\ LET a == ret[c].binding.val
           response == [version |-> "V11", status_code |-> "CODE200",
                        headers |-> EmptyMap,
                        body |-> Some(Enc(CounterValue
                                          \o format_usize(arg.heap[a].data.value)))]
       IN  /\ conn' = [conn EXCEPT ![c].phase = "Writing",
                                   ![c].called = Append(@, <<conn[c].handler, conn[c].key>>),
                                   ![c].response = Some(response)]
           /\ arg' = [arg EXCEPT !.heap[a].writer = @ \ {c},
                                 !.heap[a].readers = @ \ {c},
                                 !.args.readers = @ \ {c}]
    /\ ret' = [ret EXCEPT ![c] = [Entry EXCEPT !.pc = "returned"]]
    /\ readers' = readers \ {c}
    /\ UNCHANGED <<listening, router>>

NextCounter ==
    \E c \in Requests :
        \/ ArgsRead(c)
        \/ ArgsArg(c)
        \/ BindingWrite(c)
        \/ AddLoad(c)
        \/ AddStore(c)
        \/ Respond(c)
        \/ Write(c)

SpecCounter == InitCounter /\ [][NextCounter]_vars

-----------------------------------------------------------------------------
(* Error messages of the connection closure *)

ParseErrors ==
    { "Invalid request", "Missing method", "No matching HTTP method",
      "Missing path", "Missing HTTP version", "No matching HTTP version",
      "Malformed header" }
NoRouteError == "Error: No associated functions to request"
HandlerError == "handler failed"

-----------------------------------------------------------------------------
(* Properties of the connection server *)

\* The phase changes a connection may make.
AllowedSteps ==
    { <<"Idle", "Pending">>, <<"Pending", "Accepted">>, <<"Accepted", "Reading">>,
      <<"Reading", "Routing">>, <<"Routing", "Handling">>,
      <<"Handling", "Writing">>, <<"Writing", "Closed">>,
      <<"Reading", "Closed">>, <<"Routing", "Closed">>, <<"Handling", "Closed">> }

\* C1: a connection's phase only moves forward along Accepted, Reading,
\* Routing, Handling, Writing, Closed (a failure goes straight to Closed) and
\* never back to Reading; on one connection the parser runs at most once, at
\* most one handler is invoked, write_response is entered at most once, and
\* once it has been entered the connection is closed.
C1_PhaseOrder ==
    [][\A c \in Conns :
          /\ conn'[c].phase # conn[c].phase
                => <<conn[c].phase, conn'[c].phase>> \in AllowedSteps
          /\ conn'[c].parsed <= 1
          /\ Len(conn'[c].called) <= 1
          /\ conn'[c].writes <= 1
          /\ conn'[c].writes = 1 => conn'[c].phase = "Closed"]_vars

\* A connection that went through every phase: one request parsed, one handler
\* invoked, one response written, closed.
C1_Witness ==
    \E c \in Conns :
        /\ conn[c].phase = "Closed" /\ conn[c].result = "Ok"
        /\ conn[c].parsed = 1 /\ Len(conn[c].called) = 1
        /\ conn[c].writes = 1 /\ conn[c].out # <<>>

\* C2: a connection whose closure failed on parsing, on the route lookup or in
\* the handler is closed with no byte written to the client and without
\* write_response having been entered.
C2_NoBytesOnFailure ==
    \A c \in Conns :
        conn[c].result \in ParseErrors \cup {NoRouteError, HandlerError}
            => /\ conn[c].phase = "Closed"
               /\ conn[c].out = <<>>
               /\ conn[c].writes = 0

\* One connection failed on the route lookup and another in its handler.
C2_Witness ==
    \E c, d \in Conns :
        /\ conn[c].result = NoRouteError /\ conn[c].parsed = 1
        /\ conn[d].result = HandlerError /\ Len(conn[d].called) = 1

\* The thread of c has ended in a failure.
ThreadFailed(c) == conn[c].phase = "Closed" /\ conn[c].result # "Ok"

\* c is the connection the listener yields next.
FirstPending(c) ==
    conn[c].phase = "Pending" /\ \A d \in Conns : d < c => conn[d].phase # "Pending"

\* The accept loop can take connection d, d's thread can start, and d's
\* thread, holding the route table's read guard, can run its handler.
CanAdvance(d) ==
    /\ listening /\ FirstPending(d) => ENABLED Accept(d)
    /\ conn[d].phase = "Accepted" => ENABLED ThreadStart(d)
    /\ conn[d].phase = "Handling" => d \in readers /\ ENABLED Handle(d)

\* C3: the step in which a connection's thread fails (read error, parse
\* failure, missing route, handler failure, write error, panic) changes nothing
\* of any other connection, of the accept loop or of the route table, and
\* releases no read guard but its own; and whatever connections have failed,
\* the accept loop can accept the next pending connection, an accepted
\* connection's thread can start and a routed request's handler can run.
C3_FailureIsolation ==
    [][\A c \in Conns :
          /\ ~ThreadFailed(c) /\ ThreadFailed(c)'
                => /\ listening' = listening
                   /\ router' = router
                   /\ readers' = readers \ {c}
                   /\ \A d \in Conns \ {c} : conn'[d] = conn[d]
          /\ ThreadFailed(c)' => \A d \in Conns \ {c} : CanAdvance(d)']_vars

\* One connection's thread has panicked while another, with its response ready,
\* is about to write it, and the accept loop is still running.
C3_Witness ==
    \E c, d \in Conns :
        /\ conn[c].result = "panic"
        /\ conn[d].phase = "Writing"
        /\ listening

\* The byte strings write_response may write for the response of the handler
\* registered for key.
ExpectedWrites(key) ==
    LET response == call(router[key], key).val
    IN  { write_response(response, order) :
             order \in Orders(with_chunked(response).headers) }

IsPrefix(s, ws) == Len(s) <= Len(ws) /\ s = SubSeq(ws, 1, Len(s))

\* C4: in every interleaving, a connection's request is passed only to the
\* handler registered for that request's own triple, and what is written to a
\* connection's stream is the framing of that handler's response (all of it
\* when the write succeeded, a prefix of it when a write failed), never bytes
\* of another connection's response.
C4_NoCrossTalk ==
    \A c \in Conns :
        /\ conn[c].called # <<>>
              => conn[c].called = << <<router[conn[c].key], conn[c].key>> >>
        /\ conn[c].out # <<>>
              => /\ conn[c].key \in DOMAIN router
                 /\ \E ws \in ExpectedWrites(conn[c].key) :
                       /\ IsPrefix(conn[c].out, ws)
                       /\ conn[c].result = "Ok" => conn[c].out = ws

\* Two connections served by different handlers, each with its own response.
C4_Witness ==
    \E c, d \in Conns :
        /\ conn[c].result = "Ok" /\ conn[c].called[1][1] = "hA"
        /\ conn[d].result = "Ok" /\ conn[d].called[1][1] = "hB"
        /\ conn[c].out # conn[d].out

\* The thread of c waits in stream.read after reads that all filled the buffer,
\* with nothing pending and the client's side still open.
Stalled(c) ==
    /\ conn[c].phase = "Reading"
    /\ conn[c].reads # <<>>
    /\ \A i \in DOMAIN conn[c].reads : conn[c].reads[i] = FULL_READ
    /\ conn[c].inbuf = <<>>
    /\ ~conn[c].clientClosed

\* C5: while the accept loop runs, the next pending connection can be accepted
\* whatever the connections accepted before it are doing, and an accepted
\* connection's thread can start whatever the other threads are doing.
C5_AcceptNeverBlocked ==
    \A c \in Conns :
        /\ listening /\ FirstPending(c) => ENABLED Accept(c)
        /\ conn[c].phase = "Accepted" => ENABLED ThreadStart(c)

\* A later connection has been accepted and its thread is running while an
\* earlier one is stalled in Reading.
C5_Witness ==
    \E c, d \in Conns :
        /\ c < d
        /\ Stalled(c)
        /\ conn[d].phase \in {"Reading", "Routing", "Handling", "Writing"}

Last(s) == s[Len(s)]

\* C6 (as claimed): once the reads r1..rk of a connection have ended with a
\* short read, the request parser is handed the concatenation r1 ++ ... ++ rk.
C6_ParserGetsAllReads ==
    \A c \in Conns :
        conn[c].reads # <<>> /\ Last(conn[c].reads) < FULL_READ
            => /\ conn[c].phase = "Routing"
               /\ conn[c].text = conn[c].got

\* C7: read_request hands a text to the parser only after a read that returned
\* fewer than 4096 bytes, all reads before it having returned 4096; and a
\* thread stalled after full reads can take no step (no further read, no
\* parse, no handler, no write) and has parsed, handled and written nothing.
C7_StallOnFullReads ==
    \A c \in Conns :
        /\ conn[c].phase = "Routing"
              => /\ conn[c].reads # <<>>
                 /\ Last(conn[c].reads) < FULL_READ
                 /\ \A i \in 1..(Len(conn[c].reads) - 1) : conn[c].reads[i] = FULL_READ
        /\ Stalled(c)
              => /\ ~ENABLED Read(c)
                 /\ ~ENABLED Route(c)
                 /\ ~ENABLED Handle(c)
                 /\ ~ENABLED Write(c)
                 /\ conn[c].parsed = 0
                 /\ conn[c].called = <<>>
                 /\ conn[c].out = <<>>

\* A thread is stalled after full reads and a connection that arrived later has
\* been served.
C7_Witness ==
    \E c, d \in Conns :
        /\ c < d
        /\ Stalled(c)
        /\ conn[d].phase = "Closed" /\ conn[d].result = "Ok"

\* The thread of c has written its whole response.
Served(c) ==
    /\ conn[c].phase = "Closed"
    /\ conn[c].result = "Ok"
    /\ conn[c].response.some

UpperHex == <<"0", "1", "2", "3", "4", "5", "6", "7", "8", "9", "A", "B", "C", "D", "E", "F">>

\* The number an uppercase hexadecimal numeral denotes.
RECURSIVE HexValue(_)
HexValue(ds) ==
    IF ds = <<>> THEN 0
    ELSE 16 * HexValue(SubSeq(ds, 1, Len(ds) - 1))
            + (CHOOSE v \in 0..15 : UpperHex[v + 1] = ds[Len(ds)])

IsUpperHex(ds) ==
    /\ ds # <<>>
    /\ \A i \in DOMAIN ds : \E v \in 1..16 : UpperHex[v] = ds[i]

\* The writes ws[from], ws[from + step], ... ws[to] as one byte string.
RECURSIVE ConcatWrites(_, _, _, _)
ConcatWrites(ws, from, step, to) ==
    IF from > to THEN <<>>
    ELSE RCat(ws[from], ConcatWrites(ws, from + step, step, to))

\* C8: for a body of n >= 1 bytes the writes after the header block are
\* ceil(n/4096) chunks and the final marker; chunk i is a line with its length
\* in uppercase hexadecimal and CRLF, its bytes, and CRLF; every chunk but the
\* last has 4096 bytes and the last has the remaining 1..4096; the chunks'
\* bytes, concatenated in order, are the body.
C8_ChunkFraming ==
    \A c \in Conns :
        Served(c) /\ conn[c].response.val.body.some
                  /\ RLen(conn[c].response.val.body.val) >= 1
        => LET body == conn[c].response.val.body.val
               out == conn[c].out
               n == RLen(body)
               m == (n + 4095) \div 4096
           IN  /\ Len(out) = 1 + 3 * m + 1
               /\ \A i \in 1..m :
                     LET size == IF i < m THEN 4096 ELSE n - 4096 * (m - 1)
                         line == Expand(out[3 * i - 1])
                         digits == SubSeq(line, 1, Len(line) - 2)
                     IN  /\ Len(line) >= 3
                         /\ SubSeq(line, Len(line) - 1, Len(line)) = <<"\r", "\n">>
                         /\ IsUpperHex(digits)
                         /\ HexValue(digits) = size
                         /\ size \in 1..4096
                         /\ RLen(out[3 * i]) = size
                         /\ out[3 * i + 1] = Enc(<<"\r", "\n">>)
               /\ ConcatWrites(out, 3, 3, 3 * m) = body

\* A body of 10000 bytes has been written as three chunks.
C8_Witness ==
    \E c \in Conns :
        /\ Served(c)
        /\ conn[c].response.val.body.some
        /\ RLen(conn[c].response.val.body.val) = 10000
        /\ Len(conn[c].out) = 11
        /\ RLen(conn[c].out[9]) = 10000 - 2 * 4096

ZeroChunk == <<"0", "\r", "\n", "\r", "\n">>

\* The position of the first "\r" of a byte string (its length if there is
\* none).
RECURSIVE FindCR(_)
FindCR(r) ==
    IF r = <<>> THEN 0
    ELSE IF Head(r).c = "\r" THEN 0
    ELSE Head(r).n + FindCR(Tail(r))

\* A decoder of the chunked transfer coding: the body decoded from r and what
\* is left of r after the zero-length chunk.
RECURSIVE Dechunk(_, _)
Dechunk(r, acc) ==
    LET p == FindCR(r)
        digits == Expand(RTake(r, p))
    IN  IF ~IsUpperHex(digits) \/ RSlice(r, p, 2) # Enc(<<"\r", "\n">>)
        THEN [ok |-> FALSE, body |-> acc, rest |-> r]
        ELSE LET size == HexValue(digits)
             IN  IF size = 0
                 THEN [ok |-> RSlice(r, p + 2, 2) = Enc(<<"\r", "\n">>),
                       body |-> acc, rest |-> RDrop(r, p + 4)]
                 ELSE IF RLen(r) < p + 2 + size + 2
                         \/ RSlice(r, p + 2 + size, 2) # Enc(<<"\r", "\n">>)
                 THEN [ok |-> FALSE, body |-> acc, rest |-> r]
                 ELSE Dechunk(RDrop(r, p + 2 + size + 2),
                              RCat(acc, RSlice(r, p + 2, size)))

\* C9: a response written completely ends with the write of "0\r\n\r\n", which
\* follows the header block and every data chunk; it is the only zero-length
\* chunk, so that a chunked decoder reads the body and stops exactly at the
\* end of what was written; and with no body or an empty body the header
\* block and the marker are all that is written.
C9_FinalChunk ==
    \A c \in Conns :
        Served(c)
        => LET body == conn[c].response.val.body
               out == conn[c].out
               decoded == Dechunk(ConcatWrites(out, 2, 1, Len(out)), <<>>)
           IN  /\ Len(out) >= 2
               /\ out[Len(out)] = Enc(ZeroChunk)
               /\ decoded.ok
               /\ decoded.rest = <<>>
               /\ decoded.body = (IF body.some THEN body.val ELSE <<>>)
               /\ (~body.some \/ body.val = <<>>) => Len(out) = 2

\* A response without a body has been written: header block, then the marker.
C9_Witness ==
    \E c \in Conns :
        /\ Served(c)
        /\ ~conn[c].response.val.body.some
        /\ Len(conn[c].out) = 2

\* The pieces of s between its "\n" characters.
RECURSIVE SplitLF(_, _)
SplitLF(s, cur) ==
    IF s = <<>> THEN <<cur>>
    ELSE IF Head(s) = "\n" THEN <<cur>> \o SplitLF(Tail(s), <<>>)
    ELSE SplitLF(Tail(s), Append(cur, Head(s)))

\* C10: the header block written for a response is its status line, then one
\* line "name: value" for each header the handler supplied under a name other
\* than Transfer-Encoding, unchanged, and exactly one line
\* "Transfer-Encoding: chunked", in some order, then an empty line: a value the
\* handler gave Transfer-Encoding appears nowhere.
C10_TransferEncodingForced ==
    \A c \in Conns :
        conn[c].out # <<>> /\ conn[c].response.some
        => LET h == conn[c].response.val.headers
               ls == SplitLF(Expand(conn[c].out[1]), <<>>)
               n == Len(ls)
               hdr == SubSeq(ls, 2, n - 2)
               forced == <<"T", "r", "a", "n", "s", "f", "e", "r", "-", "E", "n", "c", "o", "d", "i", "n", "g">> \o <<":", " ">> \o <<"c", "h", "u", "n", "k", "e", "d">>
               others == { k \o <<":", " ">> \o h[k] :
                              k \in DOMAIN h \ {<<"T", "r", "a", "n", "s", "f", "e", "r", "-", "E", "n", "c", "o", "d", "i", "n", "g">>} }
           IN  /\ n >= 4
               /\ ls[n - 1] = <<>> /\ ls[n] = <<>>
               /\ { hdr[i] : i \in DOMAIN hdr } = others \cup {forced}
               /\ Len(hdr) = Cardinality(others) + 1

\* A response whose handler set Transfer-Encoding to gzip beside another header
\* has been written.
C10_Witness ==
    \E c \in Conns :
        /\ Served(c)
        /\ <<"T", "r", "a", "n", "s", "f", "e", "r", "-", "E", "n", "c", "o", "d", "i", "n", "g">> \in DOMAIN conn[c].response.val.headers
        /\ conn[c].response.val.headers[<<"T", "r", "a", "n", "s", "f", "e", "r", "-", "E", "n", "c", "o", "d", "i", "n", "g">>] = <<"g", "z", "i", "p">>
        /\ Cardinality(DOMAIN conn[c].response.val.headers) = 2

\* The add_route calls made so far for a triple, by position.
Registrations(triple) == {i \in DOMAIN arg : arg[i].triple = triple}

\* C11: after any sequence of add_route calls, route returns for a request the
\* handler of the last call made with exactly the request's (method, path,
\* version), and None when no call was made with it, whatever was registered
\* for triples that differ in method, version or path.
C11_RouteExactMatch ==
    ret # <<>>
    => LET hits == Registrations(ret.triple)
       IN  ret.found =
              IF hits = {} THEN None
              ELSE Some(arg[CHOOSE i \in hits : \A j \in hits : j <= i].handler)

\* A triple was registered twice with different handlers and the lookup gave
\* the second; the third registration differs from it in the path only.
C11_Witness ==
    /\ Len(arg) = 3
    /\ arg[1].triple = arg[2].triple
    /\ arg[1].handler = "hA" /\ arg[2].handler = "hB"
    /\ arg[3].triple[1] = arg[1].triple[1]
    /\ arg[3].triple[3] = arg[1].triple[3]
    /\ arg[3].triple[2] # arg[1].triple[2]
    /\ arg[3].handler = "hA"
    /\ ret # <<>>
    /\ ret.triple = arg[1].triple
    /\ ret.found = Some("hB")

\* The pieces of s between its "\n" characters, each without a final "\r";
\* nothing follows a final "\n".
TextLines(s) ==
    LET pieces == SplitLF(s, <<>>)
        strip(l) == IF l # <<>> /\ l[Len(l)] = "\r" THEN SubSeq(l, 1, Len(l) - 1) ELSE l
        n == IF pieces[Len(pieces)] = <<>> THEN Len(pieces) - 1 ELSE Len(pieces)
    IN  [i \in 1..n |-> strip(pieces[i])]

\* The whitespace-separated tokens of the request line of s.
RequestLineTokens(s) == IF TextLines(s) = <<>> THEN <<>> ELSE split_whitespace(TextLines(s)[1])

MissingMethod == Err("Missing method")
MissingPath == Err("Missing path")
MissingVersion == Err("Missing HTTP version")
MalformedHeader == Err("Malformed header")

\* C12: parsing a text whose request line has no token fails with
\* MissingMethod, one with a valid method alone fails with MissingPath, one
\* with a valid method and a path alone fails with MissingVersion; the parse
\* returns (Ok or Err) in every case and the three errors differ.
C12_MissingTokenErrors ==
    ret # <<>> /\ arg # <<>>
    => LET parts == RequestLineTokens(arg)
       IN  /\ ret.ok \in BOOLEAN
           /\ Len(parts) = 0 => ret = MissingMethod
           /\ Len(parts) = 1 /\ Method_from_str(parts[1]).ok => ret = MissingPath
           /\ Len(parts) = 2 /\ Method_from_str(parts[1]).ok => ret = MissingVersion
           /\ Cardinality({MissingMethod, MissingPath, MissingVersion}) = 3

\* A request line of a valid method and a path has been parsed.
C12_Witness ==
    /\ ret = MissingVersion
    /\ Len(RequestLineTokens(arg)) = 2

\* C13 (as claimed): a text is parsed into a request only when its request
\* line has exactly three whitespace-separated tokens.
C13_ExactlyThreeTokens ==
    ret # <<>> /\ ret.ok => Len(RequestLineTokens(arg)) = 3

\* The request line of s has a known method and a known version as its first
\* and third token.
RequestLineOk(s) ==
    LET parts == RequestLineTokens(s)
    IN  /\ Len(parts) >= 3
        /\ Method_from_str(parts[1]).ok
        /\ Version_from_str(parts[3]).ok

\* The lines of s after the request line and before the first empty line.
HeaderLines(s) ==
    LET ls == TextLines(s)
        empty == {i \in 2..Len(ls) : ls[i] = <<>>}
        stop == IF empty = {} THEN Len(ls) + 1
                ELSE CHOOSE i \in empty : \A j \in empty : i <= j
    IN  SubSeq(ls, 2, stop - 1)

HasColon(l) == \E k \in DOMAIN l : l[k] = ":"
FirstColon(l) == CHOOSE k \in DOMAIN l : l[k] = ":" /\ \A j \in 1..(k - 1) : l[j] # ":"
NameOf(l) == trim(SubSeq(l, 1, FirstColon(l) - 1))
ValueOf(l) == trim(SubSeq(l, FirstColon(l) + 1, Len(l)))

\* The map from each name in the header lines hl to the value of the last
\* line with that name.
HeadersOf(hl) ==
    [name \in {NameOf(hl[i]) : i \in DOMAIN hl} |->
        ValueOf(hl[CHOOSE i \in DOMAIN hl :
                      /\ NameOf(hl[i]) = name
                      /\ \A j \in DOMAIN hl : NameOf(hl[j]) = name => j <= i])]

\* C14: for a text with a valid request line, if some line between the request
\* line and the first empty line has no colon the parse fails with
\* MalformedHeader; otherwise the parsed headers map the trimmed text before
\* each such line's first colon to the trimmed text after it (empty or with
\* further colons as it may be), the last line of a name giving its value.
C14_HeaderLines ==
    ret # <<>> /\ RequestLineOk(arg)
    => LET hl == HeaderLines(arg)
       IN  IF \E i \in DOMAIN hl : ~HasColon(hl[i])
           THEN ret = MalformedHeader
           ELSE ret.ok /\ ret.val.headers = HeadersOf(hl)

\* Three header lines, two of them with the same name and with blanks around
\* name and value, have been parsed into two headers.
C14_Witness ==
    /\ ret # <<>>
    /\ ret.ok
    /\ Len(HeaderLines(arg)) = 3
    /\ DOMAIN ret.val.headers = {<<"A">>, <<"B">>}
    /\ ret.val.headers[<<"A">>] = <<"3">>

\* The text of s after the blank line that ends its header lines (empty when
\* there is no such line).
Remainder(s) ==
    LET pieces == SplitLF(s, <<>>)
        blank == {i \in 2..(Len(pieces) - 1) : pieces[i] \in {<<>>, <<"\r">>}}
    IN  IF blank = {} THEN <<>>
        ELSE LET b == CHOOSE i \in blank : \A j \in blank : i <= j
             IN  join(SubSeq(pieces, b + 1, Len(pieces)), <<"\n">>)

\* C15 (as claimed): the parsed body is the text after the blank line,
\* character for character, when that text is not empty, and None when it
\* is.
C15_BodyVerbatim ==
    ret # <<>> /\ ret.ok
    => ret.val.body = IF Remainder(arg) = <<>> THEN None ELSE Some(Remainder(arg))

\* The entries of a Cookie header value: its pieces between ";".
CookieEntries(v) == split(v, ";")

\* Every entry of the value is name=value.
WellFormedCookies(v) ==
    \A i \in DOMAIN CookieEntries(v) :
        Cardinality({k \in DOMAIN CookieEntries(v)[i] : CookieEntries(v)[i][k] = "="}) = 1

\* Name and value of the entry name=value, without surrounding whitespace.
EntryName(e) == trim(split(e, "=")[1])
EntryValue(e) == trim(split(e, "=")[2])

\* The map a well-formed Cookie header value denotes: each name to the value
\* of its last entry.
CookiesOf(v) ==
    LET es == CookieEntries(v)
    IN  [name \in {EntryName(es[i]) : i \in DOMAIN es} |->
            EntryValue(es[CHOOSE i \in DOMAIN es :
                             /\ EntryName(es[i]) = name
                             /\ \A j \in DOMAIN es : EntryName(es[j]) = name => j <= i])]

\* The value is a list of entries name=value, without whitespace in names and
\* values, separated by ";" and one space.
SpacedCookies(v) ==
    /\ WellFormedCookies(v)
    /\ \A i \in DOMAIN CookieEntries(v) :
          LET e == CookieEntries(v)[i]
          IN  \A k \in DOMAIN e : e[k] \in Whitespace <=> (i > 1 /\ k = 1 /\ e[k] = " ")

\* C16 (as claimed): for a request whose Cookie header is a list of entries
\* name=value separated by ";" and a space, as in "a=1; b=2", get_cookies
\* returns the map from each name to its value with no whitespace
\* around either, and get_cookie of a name in that map returns its value.
C16_CookiesTrimmed ==
    /\ ret # <<>>
    /\ HeaderCookie \in DOMAIN arg.request.headers
    /\ SpacedCookies(arg.request.headers[HeaderCookie])
    => LET cookies == CookiesOf(arg.request.headers[HeaderCookie])
       IN  /\ ret.fn = "get_cookies" => ret.val = Ok(cookies)
           /\ ret.fn = "get_cookie" /\ arg.cookie \in DOMAIN cookies
                 => ret.val = Ok(cookies[arg.cookie])

NoCookieHeader == Err("No Cookie header found")
CookieNotFound == Err("No cookie with this name ({}) exists")

\* The names in the entries of a Cookie header value, as written and trimmed.
NamesIn(v) ==
    {split(CookieEntries(v)[i], "=")[1] : i \in DOMAIN CookieEntries(v)}
        \cup {EntryName(CookieEntries(v)[i]) : i \in DOMAIN CookieEntries(v)}

\* C17: on a request with no header named exactly Cookie, get_cookies and
\* get_cookie fail with NoCookieHeader; on a request whose Cookie header is
\* well formed and holds no entry of the requested name, get_cookie fails with
\* CookieNotFound; the two errors differ, and in neither case does the call
\* panic or return Ok.
C17_CookieErrors ==
    ret # <<>>
    => /\ HeaderCookie \notin DOMAIN arg.request.headers => ret.val = NoCookieHeader
       /\ /\ ret.fn = "get_cookie"
          /\ HeaderCookie \in DOMAIN arg.request.headers
          /\ WellFormedCookies(arg.request.headers[HeaderCookie])
          /\ arg.cookie \notin NamesIn(arg.request.headers[HeaderCookie])
          => ret.val = CookieNotFound
       /\ NoCookieHeader # CookieNotFound

\* get_cookie was asked for a name that a well-formed Cookie header of two
\* entries does not hold.
C17_Witness ==
    /\ ret # <<>>
    /\ ret.fn = "get_cookie"
    /\ HeaderCookie \in DOMAIN arg.request.headers
    /\ Len(CookieEntries(arg.request.headers[HeaderCookie])) = 2
    /\ WellFormedCookies(arg.request.headers[HeaderCookie])
    /\ arg.cookie \notin NamesIn(arg.request.headers[HeaderCookie])
    /\ ret.val = CookieNotFound

MethodTokens ==
    { <<"G", "E", "T">>,
      <<"H", "E", "A", "D">>,
      <<"P", "O", "S", "T">>,
      <<"P", "U", "T">>,
      <<"D", "E", "L", "E", "T", "E">>,
      <<"C", "O", "N", "N", "E", "C", "T">>,
      <<"O", "P", "T", "I", "O", "N", "S">>,
      <<"T", "R", "A", "C", "E">>,
      <<"P", "A", "T", "C", "H">> }

VersionTokens ==
    { <<"H", "T", "T", "P", "/", "1", ".", "0">>,
      <<"H", "T", "T", "P", "/", "1", ".", "1">>,
      <<"H", "T", "T", "P", "/", "2", ".", "0">>,
      <<"H", "T", "T", "P", "/", "3", ".", "0">> }

CodeNumber ==
    [ CODE100 |-> 100,
      CODE102 |-> 102,
      CODE103 |-> 103,
      CODE200 |-> 200,
      CODE202 |-> 202,
      CODE204 |-> 204,
      CODE205 |-> 205,
      CODE206 |-> 206,
      CODE300 |-> 300,
      CODE301 |-> 301,
      CODE302 |-> 302,
      CODE303 |-> 303,
      CODE304 |-> 304,
      CODE307 |-> 307,
      CODE308 |-> 308,
      CODE400 |-> 400,
      CODE401 |-> 401,
      CODE403 |-> 403,
      CODE404 |-> 404,
      CODE405 |-> 405,
      CODE406 |-> 406,
      CODE408 |-> 408,
      CODE409 |-> 409,
      CODE500 |-> 500,
      CODE501 |-> 501,
      CODE502 |-> 502,
      CODE503 |-> 503,
      CODE504 |-> 504,
      CODE505 |-> 505,
      CODE511 |-> 511 ]

\* The reason phrases of the HTTP status code registry.
ReasonPhrase ==
    (100 :> <<"C", "o", "n", "t", "i", "n", "u", "e">>) @@
    (102 :> <<"P", "r", "o", "c", "e", "s", "s", "i", "n", "g">>) @@
    (103 :> <<"E", "a", "r", "l", "y", " ", "H", "i", "n", "t", "s">>) @@
    (200 :> <<"O", "K">>) @@
    (202 :> <<"A", "c", "c", "e", "p", "t", "e", "d">>) @@
    (204 :> <<"N", "o", " ", "C", "o", "n", "t", "e", "n", "t">>) @@
    (205 :> <<"R", "e", "s", "e", "t", " ", "C", "o", "n", "t", "e", "n", "t">>) @@
    (206 :> <<"P", "a", "r", "t", "i", "a", "l", " ", "C", "o", "n", "t", "e", "n", "t">>) @@
    (300 :> <<"M", "u", "l", "t", "i", "p", "l", "e", " ", "C", "h", "o", "i", "c", "e", "s">>) @@
    (301 :> <<"M", "o", "v", "e", "d", " ", "P", "e", "r", "m", "a", "n", "e", "n", "t", "l", "y">>) @@
    (302 :> <<"F", "o", "u", "n", "d">>) @@
    (303 :> <<"S", "e", "e", " ", "O", "t", "h", "e", "r">>) @@
    (304 :> <<"N", "o", "t", " ", "M", "o", "d", "i", "f", "i", "e", "d">>) @@
    (305 :> <<"U", "s", "e", " ", "P", "r", "o", "x", "y">>) @@
    (306 :> <<"(", "U", "n", "u", "s", "e", "d", ")">>) @@
    (307 :> <<"T", "e", "m", "p", "o", "r", "a", "r", "y", " ", "R", "e", "d", "i", "r", "e", "c", "t">>) @@
    (308 :> <<"P", "e", "r", "m", "a", "n", "e", "n", "t", " ", "R", "e", "d", "i", "r", "e", "c", "t">>) @@
    (400 :> <<"B", "a", "d", " ", "R", "e", "q", "u", "e", "s", "t">>) @@
    (401 :> <<"U", "n", "a", "u", "t", "h", "o", "r", "i", "z", "e", "d">>) @@
    (402 :> <<"P", "a", "y", "m", "e", "n", "t", " ", "R", "e", "q", "u", "i", "r", "e", "d">>) @@
    (403 :> <<"F", "o", "r", "b", "i", "d", "d", "e", "n">>) @@
    (404 :> <<"N", "o", "t", " ", "F", "o", "u", "n", "d">>) @@
    (405 :> <<"M", "e", "t", "h", "o", "d", " ", "N", "o", "t", " ", "A", "l", "l", "o", "w", "e", "d">>) @@
    (406 :> <<"N", "o", "t", " ", "A", "c", "c", "e", "p", "t", "a", "b", "l", "e">>) @@
    (407 :> <<"P", "r", "o", "x", "y", " ", "A", "u", "t", "h", "e", "n", "t", "i", "c", "a", "t", "i", "o", "n", " ", "R", "e", "q", "u", "i", "r", "e", "d">>) @@
    (408 :> <<"R", "e", "q", "u", "e", "s", "t", " ", "T", "i", "m", "e", "o", "u", "t">>) @@
    (409 :> <<"C", "o", "n", "f", "l", "i", "c", "t">>) @@
    (500 :> <<"I", "n", "t", "e", "r", "n", "a", "l", " ", "S", "e", "r", "v", "e", "r", " ", "E", "r", "r", "o", "r">>) @@
    (501 :> <<"N", "o", "t", " ", "I", "m", "p", "l", "e", "m", "e", "n", "t", "e", "d">>) @@
    (502 :> <<"B", "a", "d", " ", "G", "a", "t", "e", "w", "a", "y">>) @@
    (503 :> <<"S", "e", "r", "v", "i", "c", "e", " ", "U", "n", "a", "v", "a", "i", "l", "a", "b", "l", "e">>) @@
    (504 :> <<"G", "a", "t", "e", "w", "a", "y", " ", "T", "i", "m", "e", "o", "u", "t">>) @@
    (505 :> <<"H", "T", "T", "P", " ", "V", "e", "r", "s", "i", "o", "n", " ", "N", "o", "t", " ", "S", "u", "p", "p", "o", "r", "t", "e", "d">>) @@
    (511 :> <<"N", "e", "t", "w", "o", "r", "k", " ", "A", "u", "t", "h", "e", "n", "t", "i", "c", "a", "t", "i", "o", "n", " ", "R", "e", "q", "u", "i", "r", "e", "d">>)

ClaimedCodes ==
    {100, 102, 103, 200, 202, 204, 205, 206} \cup (300..308) \cup (400..409)
        \cup (500..505) \cup {511}

\* The three decimal digits of n.
Digits3(n) ==
    LET d == <<"0", "1", "2", "3", "4", "5", "6", "7", "8", "9">>
    IN  <<d[(n \div 100) + 1], d[((n \div 10) % 10) + 1], d[(n % 10) + 1]>>

\* C19 (as claimed): every status code the enumeration has is one of the
\* claimed codes, 201 is not among them, and each serializes as its three
\* digits, one space and the standard reason phrase of that code.
C19_StatusCatalog ==
    /\ {CodeNumber[c] : c \in StatusCode} \subseteq ClaimedCodes
    /\ 201 \notin {CodeNumber[c] : c \in StatusCode}
    /\ ret # <<>> /\ arg.fn = "StatusCode::to_string"
          => ret.shown = Some(Digits3(CodeNumber[arg.x]) \o <<" ">>
                                 \o ReasonPhrase[CodeNumber[arg.x]])

\* C20: no step of the accept loop or of a connection thread changes the
\* route table; the only access to its lock is a thread taking or dropping
\* its own read guard; and every lookup, of whatever connection and at whatever
\* time, answers as the table the server was constructed with: the handler
\* registered for the request's triple, or no match if there is none.
C20_RouteTableReadOnly ==
    [][/\ router' = router
       /\ router = Routes
       /\ \A c \in Conns :
             /\ (c \in readers') # (c \in readers)
                   => conn[c].phase \in {"Routing", "Handling"}
             /\ conn[c].phase = "Routing" /\ conn'[c].phase = "Handling"
                   => /\ conn'[c].key \in DOMAIN Routes
                      /\ conn'[c].handler = Routes[conn'[c].key]
             /\ conn[c].phase = "Routing" /\ conn'[c].result = NoRouteError
                   => conn'[c].key \notin DOMAIN Routes]_vars

\* Two connections have looked up the same triple, one after the other had
\* finished, and were given the same handler.
C20_Witness ==
    \E c, d \in Conns :
        /\ c # d
        /\ conn[c].phase = "Closed" /\ conn[c].called # <<>>
        /\ conn[d].phase = "Handling"
        /\ conn[d].key = conn[c].key
        /\ conn[d].handler = conn[c].called[1][1]

-----------------------------------------------------------------------------
(* C21: the scope of the router's read guard *)

\* C21: after every step, a connection thread holds the router's read guard
\* exactly while it is between its route lookup and the return of its handler,
\* so a thread that writes its response, or has ended, holds none; a thread
\* that takes the guard leaves every guard held by another thread in place,
\* and a thread whose handler returns or fails drops its own guard only; and
\* a thread whose handler is running can take its next step whichever other
\* threads hold the guard.
C21_ReadGuardScope ==
    [][\A c \in Conns :
          /\ c \in readers' <=> conn'[c].phase = "Handling"
          /\ conn[c].phase = "Routing" /\ conn'[c].phase = "Handling"
                => readers' = readers \cup {c}
          /\ conn[c].phase = "Handling" /\ conn'[c].phase # "Handling"
                => readers' = readers \ {c}
          /\ conn'[c].phase = "Handling" => (ENABLED Handle(c))']_vars

\* Two handlers are running at the same time, each under its thread's own
\* read guard: the second thread took the guard while the first held it.
C21_Witness ==
    \E c, d \in Conns :
        /\ c # d
        /\ {c, d} \subseteq readers
        /\ conn[c].phase = "Handling" /\ conn[d].phase = "Handling"
        /\ conn[c].called = <<>> /\ conn[d].called = <<>>

-----------------------------------------------------------------------------
(* C22: the counter of the documented example *)

\* The requests made to the counter route, and those answered in full.
Made == {c \in DOMAIN conn : conn[c].phase # "Idle"}
Completed == {c \in Made : conn[c].phase = "Closed" /\ conn[c].result = "Ok"}

\* The number a string of decimal digits denotes.
RECURSIVE DecimalValue(_)
DecimalValue(ds) ==
    IF ds = <<>> THEN 0
    ELSE 10 * DecimalValue(SubSeq(ds, 1, Len(ds) - 1))
            + (CHOOSE v \in 0..9 : UpperHex[v + 1] = ds[Len(ds)])

\* The value the response body of request c reports.
Reported(c) ==
    LET body == Expand(conn[c].response.val.body.val)
    IN  DecimalValue(SubSeq(body, Len(CounterValue) + 1, Len(body)))

\* C22: once the N requests made to the counter route have all completed,
\* the stored counter is N, every response body is "Counter value: " followed
\* by a decimal number, and the numbers reported are N distinct values, the
\* values 1..N.
C22_CounterExact ==
    Made # {} /\ Completed = Made
        => /\ arg.heap[CounterArc].data.value = Cardinality(Made)
           /\ \A c \in Made :
                 LET body == Expand(conn[c].response.val.body.val)
                 IN  /\ SubSeq(body, 1, Len(CounterValue)) = CounterValue
                     /\ Len(body) > Len(CounterValue)
                     /\ \A i \in Len(CounterValue) + 1..Len(body) :
                           \E v \in 1..10 : UpperHex[v] = body[i]
           /\ {Reported(c) : c \in Made} = 1..Cardinality(Made)
           /\ \A c, d \in Made : c # d => Reported(c) # Reported(d)

\* Three requests have completed, and the one that entered the handler last
\* (the highest-numbered) was not the last to increment: the increments were
\* interleaved in another order than the requests' own.
C22_Witness ==
    /\ Cardinality(Made) = 3 /\ Completed = Made
    /\ Reported(3) = 1 /\ Reported(1) = 2 /\ Reported(2) = 3

-----------------------------------------------------------------------------
(* C23: Server::start and the accept loop *)

\* What start leaves possible for connection c: the accept loop takes c when
\* c is the next pending connection and the loop still runs, and never once it
\* has ended; c's thread, once spawned, can start, and can run its handler
\* once it has routed its request.
StartAllows(c) ==
    /\ listening /\ FirstPending(c) => ENABLED Accept(c)
    /\ ~listening => ~ENABLED Accept(c)
    /\ conn[c].phase = "Accepted" => ENABLED ThreadStart(c)
    /\ conn[c].phase = "Handling" => ENABLED Handle(c)

====
